---- MODULE Spec2Model ----
(***************************************************************************)
(* Verification model of the Deci backend chat pipeline:                   *)
(*   - CircuitBreaker (utils/CircuitBreaker.ts)                            *)
(*   - BulletproofChatService.processMessage and the chat route            *)
(*   - the RAG clients (ChatService.callRAG, executeRAGCall)               *)
(*   - RequestQueue (middleware/protection.ts)                             *)
(*   - OllamaResilience: generateResponse, response cache, health check    *)
(* Time is the value of Date.now() in milliseconds.                        *)
(***************************************************************************)
EXTENDS Integers, Sequences, FiniteSets, TLC

\* ------------------------------------------------------------------ bounds
\* one step of the clock, in ms
TickMs == 15000
\* number of clock steps explored
MaxTicks == 5
\* cap on the failure counter of a breaker (the counter itself is unbounded)
MaxFailures == 4
\* concurrent execute() calls on the stand-alone breaker
NumCalls == 2
\* cap on the number of requests ever put into the RequestQueue
MaxTickets == 102
\* cap on the ClusterCache messages that are on their way at one time
MaxInFlight == 2
\* cap on the restarts of one process that the ServerManager is followed for
MaxRestarted == 6
\* cap on the requests put into the RequestQueue in the runs followed for
\* liveness
MaxWaited == 12
\* cap on the number of words of a response text that suggestions are made
\* for
MaxWords == 4

\* Date.now() when the process is constructed: any value above resetTimeout
StartTime == 4 * TickMs
MaxTime == StartTime + MaxTicks * TickMs
\* OllamaResilience is followed over one step of the clock, with its
\* failure counters capped below the breakers' cap
MaxTimeOR == StartTime + TickMs
MaxConnFailures == MaxFailures - 1

\* ------------------------------------------------- CircuitBreaker options
OllamaOptions ==
  [failureThreshold |-> 3, resetTimeout |-> 30000, timeout |-> 45000,
   name |-> "Ollama"]

RagOptions ==
  [failureThreshold |-> 3, resetTimeout |-> 30000, timeout |-> 60000,
   name |-> "RAG"]

CircuitState == {"CLOSED", "OPEN", "HALF_OPEN"}

\* a freshly constructed CircuitBreaker
CircuitBreakerInit == [state |-> "CLOSED", failures |-> 0, lastFailureTime |-> 0]

\* ------------------------------------------------- CircuitBreaker methods
shouldAttemptReset_strict(b, opts, t) ==
  (t - b.lastFailureTime) > opts.resetTimeout

shouldAttemptReset_always(b, opts, t) == TRUE

shouldAttemptReset(b, opts, t) ==
  LET timeSinceLastFailure == t - b.lastFailureTime
  IN  timeSinceLastFailure >= opts.resetTimeout

onSuccess_keepCount(b) ==
  [b EXCEPT !.state = IF b.state = "HALF_OPEN" THEN "CLOSED" ELSE b.state]

onSuccess(b) ==
  [b EXCEPT !.failures = 0,
            !.state = IF b.state = "HALF_OPEN" THEN "CLOSED" ELSE b.state]

onFailure_gt(b, opts, t) ==
  LET f == b.failures + 1
  IN  [state |-> IF f > opts.failureThreshold THEN "OPEN" ELSE b.state,
       failures |-> f,
       lastFailureTime |-> t]

onFailure(b, opts, t) ==
  LET f == b.failures + 1
  IN  [state |-> IF f >= opts.failureThreshold THEN "OPEN" ELSE b.state,
       failures |-> f,
       lastFailureTime |-> t]

reset_countOnly(b) == [b EXCEPT !.failures = 0, !.lastFailureTime = 0]
reset(b) == [state |-> "CLOSED", failures |-> 0, lastFailureTime |-> 0]

\* The synchronous head of execute(): the OPEN check.  admitted = FALSE is
\* the throw "Circuit breaker is OPEN"; otherwise the wrapped function is
\* invoked and raced against the timer.
executeAdmit(b, opts, t) ==
  IF b.state = "OPEN"
  THEN IF shouldAttemptReset(b, opts, t)
       THEN [admitted |-> TRUE, cb |-> [b EXCEPT !.state = "HALF_OPEN"]]
       ELSE [admitted |-> FALSE, cb |-> b]
  ELSE [admitted |-> TRUE, cb |-> b]

\* The continuation of execute() once Promise.race has settled:
\* "ok" runs onSuccess, "error" (wrapped call rejected) and "timeout"
\* (timer rejected) both reach the catch block and run onFailure.
executeSettle_timeoutIgnored(b, opts, t, outcome) ==
  IF outcome = "ok" THEN onSuccess(b)
  ELSE IF outcome = "timeout" THEN b
  ELSE onFailure(b, opts, t)

executeSettle(b, opts, t, outcome) ==
  IF outcome = "ok" THEN onSuccess(b) ELSE onFailure(b, opts, t)

\* has the timer of a call started at time started fired by time t
timerDue_never(opts, started, t) == FALSE

timerDue(opts, started, t) == t - started >= opts.timeout

\* A settlement of the wrapped promise after Promise.race has already
\* settled with the timeout: nobody is awaiting it.
lateSettlement(b, opts, t, ok) == b

\* ---------------------------------------------------------------- state
VARIABLES
  now,      \* Date.now()
  breaker,  \* a CircuitBreaker with OllamaOptions, called directly
  calls,    \* the execute() calls on breaker: slot -> call record
  streak,   \* history: failed calls since the last success / reset
  ragCircuitBreaker,     \* BulletproofChatService.ragCircuitBreaker
  ollamaCircuitBreaker,  \* BulletproofChatService.ollamaCircuitBreaker
  reqs,     \* the processMessage() invocations: slot -> request record
  ragQueries,  \* the last RAG query of each RAG client: client -> record
  processing,  \* RequestQueue.processing
  queue,       \* RequestQueue.queue: the tickets of the waiting requests
  tickets,     \* history: how many requests were put into the queue
  lastStarted, \* history: ticket of the last request started by processNext
  rqEvent,     \* history: the last call of process() / end of a request
  config,      \* OllamaResilience.config; NoConfig before the constructor
  connections, \* OllamaResilience.connections: number -> connection
  responseCache,       \* OllamaResilience.responseCache, in insertion order
  serviceStatus,       \* OllamaResilience.serviceStatus
  consecutiveFailures, \* OllamaResilience.consecutiveFailures
  restartTimeout,      \* the restart timer is pending
  recoveryTimers,      \* connections whose recovery timer is pending
  gen,         \* the generateResponse() invocation
  recentKey,   \* history: the cache key most recently stored or returned
  localCache,  \* ClusterCache.localCache of each worker, in insertion order
  toMaster,    \* messages sent by each worker, not yet received by the master
  toWorker,    \* messages sent by the master to each worker, not yet received
  crashRecovery,  \* the CrashRecovery instance of the process
  nodeProcess, \* the process: exit code, pending timers
  serverManager,  \* the ServerManager: processes, timers, isShuttingDown
  restarted,   \* history: the restarts of each process after an exit
  suggested    \* a response text and the suggestions made for it

cbVars == <<breaker, calls, streak>>
pmVars == <<ragCircuitBreaker, ollamaCircuitBreaker, reqs>>
rcVars == <<ragQueries>>
rqVars == <<processing, queue, tickets, lastStarted, rqEvent>>
orVars == <<config, connections, responseCache, serviceStatus,
            consecutiveFailures, restartTimeout, recoveryTimers, gen>>
lruVars == <<recentKey>>
ccVars == <<localCache, toMaster, toWorker>>
crVars == <<crashRecovery, nodeProcess>>
smVars == <<serverManager, restarted>>
gsVars == <<suggested>>
notCB == <<pmVars, rcVars, rqVars, orVars, lruVars, ccVars, crVars, smVars,
            gsVars>>
notPM == <<cbVars, rcVars, rqVars, orVars, lruVars, ccVars, crVars, smVars,
            gsVars>>
notRC == <<cbVars, pmVars, rqVars, orVars, lruVars, ccVars, crVars, smVars,
            gsVars>>
notRQ == <<cbVars, pmVars, rcVars, orVars, lruVars, ccVars, crVars, smVars,
            gsVars>>
notOR == <<cbVars, pmVars, rcVars, rqVars, lruVars, ccVars, crVars, smVars,
            gsVars>>
notCC == <<cbVars, pmVars, rcVars, rqVars, orVars, lruVars, crVars, smVars,
            gsVars>>
\* what the requests that only use the response cache leave alone
notLRU == <<cbVars, pmVars, rcVars, rqVars, connections, serviceStatus,
             consecutiveFailures, restartTimeout, recoveryTimers, gen,
             ccVars, crVars, smVars, gsVars>>
notCR == <<cbVars, pmVars, rcVars, rqVars, orVars, lruVars, ccVars, smVars,
            gsVars>>
notSM == <<cbVars, pmVars, rcVars, rqVars, orVars, lruVars, ccVars, crVars,
            gsVars>>
notGS == <<cbVars, pmVars, rcVars, rqVars, orVars, lruVars, ccVars, crVars,
            smVars>>
vars == <<now, breaker, calls, streak, ragCircuitBreaker,
          ollamaCircuitBreaker, reqs, ragQueries, processing, queue,
          tickets, lastStarted, rqEvent, config, connections, responseCache,
          serviceStatus, consecutiveFailures, restartTimeout,
          recoveryTimers, gen, recentKey, localCache, toMaster, toWorker,
          crashRecovery, nodeProcess, serverManager, restarted, suggested>>

Calls == 1 .. NumCalls

\* pc/fn/outcome/started: the promise of one execute() call, its wrapped
\* call and its timer.  trial and sawState are history: did this call move
\* the breaker OPEN -> HALF_OPEN, and the breaker state it found on settling.
IdleCall ==
  [pc |-> "idle", fn |-> "none", outcome |-> "none", started |-> 0,
   trial |-> FALSE, sawState |-> "none"]

\* ------------------------------------------------------ strings and values
\* A string is a sequence of tokens (words, punctuation, white space).
WhiteSpace == {" ", "\n", "\n\n"}

RECURSIVE trimStart(_)
trimStart(s) ==
  IF s # <<>> /\ Head(s) \in WhiteSpace THEN trimStart(Tail(s)) ELSE s

RECURSIVE trimEnd(_)
trimEnd(s) ==
  IF s # <<>> /\ s[Len(s)] \in WhiteSpace
  THEN trimEnd(SubSeq(s, 1, Len(s) - 1)) ELSE s

\* String.prototype.trim
trim(s) == trimEnd(trimStart(s))

\* String.prototype.toLowerCase, token by token
lowerToken(w) ==
  CASE w = "Hi" -> "hi"
    [] w = "Hello" -> "hello"
    [] w = "HEY" -> "hey"
    [] w = "EMI" -> "emi"
    [] w = "Tax" -> "tax"
    [] w = "Schemes" -> "schemes"
    [] w = "Planning" -> "planning"
    [] OTHER -> w

toLowerCase(s) == [i \in 1 .. Len(s) |-> lowerToken(s[i])]

\* JavaScript values that reach processMessage from the two dependencies
Str(s) == [t |-> "string", v |-> s]
Arr(a) == [t |-> "array", v |-> a]
Undefined == [t |-> "undefined", v |-> <<>>]
\* a value that is neither a string nor an array (a malformed field)
Obj == [t |-> "object", v |-> <<>>]
Num(n) == [t |-> "number", v |-> n]

\* JavaScript truthiness: '', 0 and undefined are falsy, [] and {} are truthy
truthy(x) ==
  \/ x.t \in {"array", "object"}
  \/ x.t = "string" /\ x.v # <<>>
  \/ x.t = "number" /\ x.v # 0

\* x.length > 0 (undefined > 0 is false)
lengthPositive(x) == x.t \in {"array", "string"} /\ Len(x.v) > 0

\* a += suffix
append(x, suffix) ==
  IF x.t = "string" THEN Str(x.v \o suffix)
  ELSE Str(<<"[object Object]">> \o suffix)

\* --------------------------------------------- BulletproofChatService data
topics ==
  << <<"EMI", " ", "Schemes">>,
     <<"Share", " ", "Options">>,
     <<"Capital", " ", "Gains", " ", "Tax">>,
     <<"Income", " ", "Tax", " ", "on", " ", "Shares">>,
     <<"Business", " ", "Asset", " ", "Disposal", " ", "Relief">>,
     <<"CSOP", " ", "Schemes">>,
     <<"SAYE", " ", "Schemes">>,
     <<"Unapproved", " ", "Options">>,
     <<"Share", " ", "Valuations">>,
     <<"Tax", " ", "Planning">> >>

systemPrompt == <<"You are an AI advisor specializing in UK EMPLOYMENT EQUITY COMPENSATION...">>

GreetingText ==
  <<"Hi! How can I help you today? I can help you with all things Equity so shoot your questions!">>

ServiceNoticeText ==
  <<"**Service Notice**", "\n\n",
    "I'm currently operating in limited mode due to external service issues, ...",
    "\n\n", "**I specialize in:**", "\n", "...", "\n\n",
    "The system will automatically recover when external services are restored.">>

BasedOnSuffix ==
  <<"\n\n", "*This response is based on official HMRC documentation.*">>

EnhancedSuffix ==
  <<"\n\n", "*This response is enhanced with official HMRC documentation.*">>

\* /^(hi|hello|hey)!?$/i.test(message.trim())
isGreeting_noTrim(message) ==
  LET m == toLowerCase(message)
  IN  /\ Len(m) \in {1, 2}
      /\ m[1] \in {"hi", "hello", "hey"}
      /\ Len(m) = 2 => m[2] = "!"

isGreeting(message) ==
  LET m == toLowerCase(trim(message))
  IN  /\ Len(m) \in {1, 2}
      /\ m[1] \in {"hi", "hello", "hey"}
      /\ Len(m) = 2 => m[2] = "!"

NoSources == Undefined

generateFallbackResponse(message) ==
  IF isGreeting(message)
  THEN [text |-> Str(GreetingText),
        suggestions |-> <<"Tell me about EMI schemes",
                          "What are CSOP schemes?",
                          "How does capital gains tax work on shares?">>,
        relatedTopics |-> SubSeq(topics, 1, 4),
        rag_used |-> FALSE,
        service_health |-> [ollama |-> "down", rag |-> "down"],
        sources |-> NoSources]
  ELSE [text |-> Str(ServiceNoticeText),
        suggestions |-> <<"Tell me about EMI scheme eligibility",
                          "What are the tax benefits of CSOP?",
                          "How is Business Asset Disposal Relief calculated?">>,
        relatedTopics |-> topics,
        rag_used |-> FALSE,
        service_health |-> [ollama |-> "down", rag |-> "down"],
        sources |-> NoSources]

\* does the string s contain the string k (String.prototype.includes)
includes(s, k) ==
  \E i \in 1 .. (Len(s) - Len(k) + 1) : SubSeq(s, i, i + Len(k) - 1) = k

slice0_all(a, n) == a

\* Array.prototype.slice(0, n)
slice0(a, n) == SubSeq(a, 1, IF Len(a) < n THEN Len(a) ELSE n)

generateSuggestions(response) ==
  LET baseSuggestions ==
        <<"Can you explain this in more detail?",
          "What are the next steps I should take?",
          "Are there any risks I should be aware of?">>
      \* response.toLowerCase() of a value that is no string throws at the
      \* first test; the catch leaves baseSuggestions as it is
      low == toLowerCase(response.v)
      pushed ==
        IF response.t # "string" THEN baseSuggestions
        ELSE baseSuggestions
             \o (IF includes(low, <<"emi">>)
                 THEN <<"How do I set up an EMI scheme?">> ELSE <<>>)
             \o (IF includes(low, <<"tax">>)
                 THEN <<"What are the tax implications?">> ELSE <<>>)
             \o (IF includes(low, <<"valuation">>)
                 THEN <<"How is share valuation determined?">> ELSE <<>>)
  IN  slice0(pushed, 3)

RECURSIVE matchingTopics(_, _)
matchingTopics(low, i) ==
  IF i > Len(topics) THEN <<>>
  ELSE (IF includes(low, toLowerCase(topics[i])) THEN <<topics[i]>> ELSE <<>>)
       \o matchingTopics(low, i + 1)

extractRelatedTopics(response) ==
  LET relatedTopics ==
        IF response.t # "string" THEN <<>>
        ELSE matchingTopics(toLowerCase(response.v), 1)
  IN  IF Len(relatedTopics) > 0 THEN slice0(relatedTopics, 4)
      ELSE slice0(topics, 4)

\* ChatService.generateSuggestionsFromResponse: ChatService.ts lines 232-250
generateSuggestionsFromResponse(response) ==
  LET low == toLowerCase(response)
      suggestions ==
        <<"Can you explain this in more detail?",
          "What are the next steps I should take?",
          "Are there any risks I should be aware of?">>
          \o (IF includes(low, <<"emi">>)
              THEN <<"How do I set up an EMI scheme?">> ELSE <<>>)
          \o (IF includes(low, <<"tax">>)
              THEN <<"What are the tax implications?">> ELSE <<>>)
          \o (IF includes(low, <<"valuation">>)
              THEN <<"How is share valuation determined?">> ELSE <<>>)
  IN  slice0(suggestions, 3)

\* the words of the response texts followed, and the texts made of them
Words == {"EMI", "Tax", "valuation", "shares"}

RECURSIVE textsOf(_)
textsOf(n) ==
  IF n = 0 THEN {<<>>}
  ELSE LET shorter == textsOf(n - 1)
       IN  shorter \cup {Append(t, w) : t \in shorter, w \in Words}

ResponseTexts == textsOf(MaxWords)

\* no text has been given to the two suggestion functions yet
NoSuggestions == [asked |-> FALSE, text |-> <<>>, bulletproof |-> <<>>,
                  chatService |-> <<>>]

formatResponse_noTrim(response) == response
\* private formatResponse(response): response.trim()
formatResponse(response) == Str(trim(response.v))

\* ------------------------------------------------------------ the inputs
\* user messages (the route passes non-empty strings only)
Messages ==
  { <<" ", "Hello", "!", "\n">>,
    <<"EMI", " ", "tax", "?">> }

\* the message field of req.body: missing, a number, an object, '', a string
BodyMessages ==
  {Undefined, Num(42), Obj, Str(<<>>)} \cup {Str(m) : m \in Messages}

\* routes/chat.ts line 17: !message || typeof message !== 'string'
messageRejected_missingOnly(message) == ~truthy(message)

messageRejected(message) == ~truthy(message) \/ message.t # "string"

Src1 ==
  [url |-> <<"https://hmrc/eim1">>, section |-> <<"ERSM1">>,
   section_title |-> <<"EMI", " ", "Schemes">>,
   snippet |-> <<"EMI", " ", "options", " ", "snippet">>]

Src2 ==
  [url |-> <<"https://hmrc/eim2">>, section |-> <<"ERSM2">>,
   section_title |-> <<>>,
   snippet |-> <<"Capital", " ", "Gains", " ", "Tax", " ", "snippet">>]

Answer1 == <<"Tax", " ", "Planning", " ", "with", " ", "EMI", " ", "Schemes">>

RagReply(avail, ans, srcs, fb) ==
  [isNull |-> FALSE, rag_available |-> avail, answer |-> ans,
   sources |-> srcs, fallback_mode |-> fb]

\* the null that safeRAGCall returns on a failure
NullReply ==
  [isNull |-> TRUE, rag_available |-> FALSE, answer |-> Undefined,
   sources |-> Undefined, fallback_mode |-> FALSE]

\* what executeRAGCall can resolve with: JSON.parse(stdout), an object (of
\* the text "null" it reads rag_available, which throws)
RagReplies ==
  { RagReply(TRUE, Str(Answer1), Arr(<<Src1, Src2>>), FALSE),
    RagReply(TRUE, Str(Answer1), Undefined, FALSE),
    RagReply(TRUE, Str(<<>>), Arr(<<Src1, Src2>>), FALSE),
    RagReply(TRUE, Str(Answer1), Arr(<<Src1>>), TRUE),
    RagReply(FALSE, Str(<<>>), Arr(<<>>), TRUE),
    RagReply(FALSE, Str(<<>>), Str(<<"not an array">>), FALSE),
    RagReply(TRUE, Obj, Arr(<<>>), FALSE) }

\* what response.data.response of the Ollama HTTP reply can be
OllamaReplies ==
  { Str(<<"\n", "Capital", " ", "Gains", " ", "Tax", " ", "advice", " ">>),
    Str(<<" ", "\n">>),
    Str(<<>>),
    Undefined,
    Obj }

\* -------------------------------------------------------- processMessage
\* the test of the sibling ChatService: answer.trim().length > 10
ragUsable_longAnswer(rr) ==
  /\ ~rr.isNull
  /\ rr.rag_available
  /\ truthy(rr.answer)
  /\ Len(trim(rr.answer.v)) > 10
  /\ ~rr.fallback_mode

ragUsable(rr) ==
  /\ ~rr.isNull
  /\ rr.rag_available
  /\ truthy(rr.answer)
  /\ ~rr.fallback_mode

\* source => `From HMRC ${source.section_title || source.section}:\n${source.snippet}`
sourceContext(source) ==
  <<"From HMRC ">>
    \o (IF source.section_title # <<>> THEN source.section_title
        ELSE source.section)
    \o <<":\n">> \o source.snippet

RECURSIVE joinContext(_)
joinContext(srcs) ==
  IF srcs = <<>> THEN <<>>
  ELSE IF Len(srcs) = 1 THEN sourceContext(srcs[1])
  ELSE sourceContext(srcs[1]) \o <<"\n\n---\n\n">> \o joinContext(Tail(srcs))

NoResponse ==
  [text |-> Undefined, suggestions |-> <<>>, relatedTopics |-> <<>>,
   rag_used |-> FALSE, service_health |-> [ollama |-> "none", rag |-> "none"],
   sources |-> NoSources]

\* the catch block of processMessage: lines 348-351
onProcessError_rethrow(message) ==
  [caught |-> TRUE, threw |-> TRUE, response |-> NoResponse]

onProcessError(message) ==
  [caught |-> TRUE, threw |-> FALSE,
   response |-> generateFallbackResponse(message)]

\* lines 322-346: the fallback test and the ChatResponse
respond(message, finalResponse, usedRAG, sources, serviceHealth) ==
  IF ~truthy(finalResponse)
  THEN [caught |-> FALSE, threw |-> FALSE,
        response |-> generateFallbackResponse(message)]
  ELSE [caught |-> FALSE, threw |-> FALSE,
        response |->
          [text |-> finalResponse,
           suggestions |-> generateSuggestions(finalResponse),
           relatedTopics |-> extractRelatedTopics(finalResponse),
           rag_used |-> usedRAG,
           service_health |-> serviceHealth,
           sources |-> IF lengthPositive(sources) THEN sources
                       ELSE NoSources]]

\* lines 286-307: the locals of processMessage once safeRAGCall returned rr.
\* next = "respond": the RAG answer is used; "ollama": safeOllamaCall is
\* next; "throw": sources.map is not a function.
afterRAG(rr) ==
  IF ragUsable(rr)
  THEN LET sources == IF truthy(rr.sources) THEN rr.sources ELSE Arr(<<>>)
       IN  [next |-> "respond",
            finalResponse |->
              IF lengthPositive(sources)
              THEN append(rr.answer, BasedOnSuffix) ELSE rr.answer,
            usedRAG |-> TRUE,
            sources |-> sources,
            contextFromRAG |-> <<>>,
            rag |-> "healthy"]
  ELSE LET hasSources ==
             ~rr.isNull /\ truthy(rr.sources) /\ lengthPositive(rr.sources)
       IN  IF hasSources /\ rr.sources.t # "array"
           THEN [next |-> "throw", finalResponse |-> Undefined,
                 usedRAG |-> FALSE, sources |-> Arr(<<>>),
                 contextFromRAG |-> <<>>, rag |-> "down"]
           ELSE [next |-> "ollama", finalResponse |-> Undefined,
                 usedRAG |-> FALSE,
                 sources |-> IF hasSources THEN rr.sources ELSE Arr(<<>>),
                 contextFromRAG |->
                   IF hasSources THEN joinContext(rr.sources.v) ELSE <<>>,
                 rag |-> IF hasSources THEN "degraded" ELSE "down"]

\* the second argument of safeOllamaCall: lines 309-310
systemArgument_always(locals) ==
  Str(systemPrompt \o <<"\n\nHMRC CONTEXT:\n">> \o locals.contextFromRAG)

systemArgument(locals) ==
  IF locals.contextFromRAG # <<>>
  THEN Str(systemPrompt \o <<"\n\nHMRC CONTEXT:\n">> \o locals.contextFromRAG)
  ELSE Undefined

\* executeOllamaCall, the system field of the request body: line 164
requestSystem(arg) == IF truthy(arg) THEN arg ELSE Str(systemPrompt)

\* lines 312-346 once safeOllamaCall returned ollamaResponse (Undefined
\* stands for its null as well: both are falsy)
afterOllama_ragUsed(message, locals, ollamaResponse) ==
  IF truthy(ollamaResponse)
  THEN IF ollamaResponse.t # "string"
       THEN onProcessError(message)
       ELSE LET formatted == formatResponse(ollamaResponse)
            IN  respond(message,
                        IF locals.contextFromRAG # <<>>
                        THEN append(formatted, EnhancedSuffix) ELSE formatted,
                        TRUE, locals.sources,
                        [ollama |-> "healthy", rag |-> locals.rag])
  ELSE respond(message, locals.finalResponse, locals.usedRAG, locals.sources,
               [ollama |-> "down", rag |-> locals.rag])

afterOllama(message, locals, ollamaResponse) ==
  IF truthy(ollamaResponse)
  THEN IF ollamaResponse.t # "string"
       THEN onProcessError(message)
       ELSE LET formatted == formatResponse(ollamaResponse)
            IN  respond(message,
                        IF locals.contextFromRAG # <<>>
                        THEN append(formatted, EnhancedSuffix) ELSE formatted,
                        locals.usedRAG, locals.sources,
                        [ollama |-> "healthy", rag |-> locals.rag])
  ELSE respond(message, locals.finalResponse, locals.usedRAG, locals.sources,
               [ollama |-> "down", rag |-> locals.rag])

\* ------------------------------------------------------- the RAG clients
\* ChatService.callRAG and BulletproofChatService.executeRAGCall
RagClients == {"ChatService", "BulletproofChatService"}

\* stdout of the subprocess: the JSON text of an object with the key
\* rag_available ("object"), of an object without it ("noKey"), the text
\* null ("null"), or no JSON at all ("malformed")
NoKeyReply == RagReply(FALSE, Undefined, Undefined, FALSE)

Stdouts ==
  [json : {"object"}, reply : RagReplies]
    \cup { [json |-> "noKey", reply |-> NoKeyReply],
           [json |-> "null", reply |-> NullReply],
           [json |-> "malformed", reply |-> NullReply] }

\* how execAsync(command, {timeout}) ends: exit code 0 with stdout, a non-zero
\* exit code, or the child killed at the timeout; stderr: it wrote to stderr
ExecResults ==
  [exit : {"ok"}, stdout : Stdouts, stderr : BOOLEAN]
    \cup [exit : {"nonzero", "timeout"},
          stdout : {[json |-> "malformed", reply |-> NullReply]},
          stderr : BOOLEAN]

\* the message of the error thrown inside the try block, <<>> if none;
\* checksKey: the hasOwnProperty('rag_available') test is made
tryError(x, checksKey) ==
  IF x.exit # "ok" THEN <<"Command failed: python3 rag_bridge.py">>
  ELSE IF x.stdout.json = "malformed" THEN <<"Unexpected token in JSON">>
  ELSE IF x.stdout.json = "null"
       THEN <<"Cannot read properties of null (reading 'rag_available')">>
  ELSE IF x.stdout.json = "noKey" /\ checksKey
       THEN <<"Invalid RAG response format">>
  ELSE <<>>

\* a settled call: it threw error, or it returned value
Threw(error) == [threw |-> TRUE, error |-> Str(error), value |-> NullReply]
Returns(value) == [threw |-> FALSE, error |-> Undefined, value |-> value]

\* ChatService.callRAG: lines 117-162
callRAG_rethrow(question, x) ==
  LET e == tryError(x, TRUE)
  IN  IF e # <<>> THEN Threw(e) ELSE Returns(x.stdout.reply)

callRAG(question, x) ==
  LET e == tryError(x, TRUE)
  IN  IF e # <<>>
      THEN Returns([isNull |-> FALSE, answer |-> Str(<<>>),
                    sources |-> Arr(<<>>), rag_available |-> FALSE,
                    fallback_mode |-> TRUE, error |-> Str(e)])
      ELSE Returns(x.stdout.reply)

\* BulletproofChatService.executeRAGCall: lines 115-152
executeRAGCall(question, x) ==
  LET e == tryError(x, FALSE)
  IN  IF e # <<>> THEN Threw(<<"RAG system error: ">> \o e)
      ELSE Returns(x.stdout.reply)

\* BulletproofChatService.safeRAGCall, given how the breaker's call of
\* executeRAGCall settled: lines 191-198
safeRAGCall(settled) ==
  IF settled.threw THEN Returns(NullReply) ELSE settled

\* one query of a client.  called: a query was made; exec: how the
\* subprocess ended; inner: how the client's own call settled; result: what
\* the caller of the client got
NoQuery ==
  [called |-> FALSE, question |-> <<>>,
   exec |-> [exit |-> "ok", stdout |-> [json |-> "null", reply |-> NullReply],
             stderr |-> FALSE],
   inner |-> Returns(NullReply), result |-> Returns(NullReply)]

\* ------------------------------------------------------------ RequestQueue
maxConcurrent == 10
maxQueue == 100

\* process(): this.queue.length >= this.maxQueue
queueFull_gt(q) == Len(q) > maxQueue

queueFull(q) == Len(q) >= maxQueue

\* process(), processNext(): this.processing < this.maxConcurrent
slotFree_le(p) == p <= maxConcurrent

slotFree(p) == p < maxConcurrent

afterRequest_lifo(p, q) ==
  IF Len(q) > 0 /\ p - 1 < maxConcurrent
  THEN [processing |-> (p - 1) + 1, queue |-> SubSeq(q, 1, Len(q) - 1),
        started |-> q[Len(q)]]
  ELSE [processing |-> p - 1, queue |-> q, started |-> 0]
afterRequest_noNext(p, q) ==
  [processing |-> p - 1, queue |-> q, started |-> 0]
\* the finally block of processRequest: processing--, then processNext()
\* starts the head of the queue, whose first statement is processing++
afterRequest(p, q) ==
  IF Len(q) > 0 /\ slotFree(p - 1)
  THEN [processing |-> (p - 1) + 1, queue |-> Tail(q), started |-> Head(q)]
  ELSE [processing |-> p - 1, queue |-> q, started |-> 0]

\* queueMiddleware: the .catch answers 503 when no header was sent
queueMiddlewareStatus(result) == IF result = "rejected" THEN 503 ELSE 0

\* op: "process" (a request arrived) or "finish" (fn of a running request
\* settled); result: "started", "queued", "rejected" (Request queue full),
\* "resolved", "threw"; flip: toggles at every arrival
NoEvent == [op |-> "none", result |-> "none", status |-> 0, flip |-> FALSE]

\* -------------------------------------------------------- OllamaResilience
\* the constructor argument: 0 stands for a field that is not given
PartialConfigs ==
  { [maxConnections |-> 2, retryAttempts |-> 0, cacheMaxSize |-> 0,
     cacheTTL |-> 10000],
    [maxConnections |-> 1, retryAttempts |-> 2, cacheMaxSize |-> 1,
     cacheTTL |-> 10000] }

\* constructor: config?.field || default
makeConfig(c) ==
  [maxConnections |-> IF c.maxConnections # 0 THEN c.maxConnections ELSE 5,
   retryAttempts |-> IF c.retryAttempts # 0 THEN c.retryAttempts ELSE 3,
   cacheMaxSize |-> IF c.cacheMaxSize # 0 THEN c.cacheMaxSize ELSE 1000,
   cacheTTL |-> IF c.cacheTTL # 0 THEN c.cacheTTL ELSE 3600000]

\* before the constructor has run
NoConfig ==
  [maxConnections |-> 0, retryAttempts |-> 0, cacheMaxSize |-> 0,
   cacheTTL |-> 0]

\* initializeConnections: ollama-0 .. ollama-(maxConnections - 1), here
\* numbered from 1
initializeConnections(cfg) ==
  [i \in 1 .. cfg.maxConnections |->
     [lastUsed |-> 0, healthy |-> TRUE, failureCount |-> 0,
      recovering |-> FALSE]]

\* the numbers of the connections of the configurations followed
ConnectionIds ==
  UNION {DOMAIN initializeConnections(makeConfig(c)) : c \in PartialConfigs}

\* the least element of a non-empty set of numbers
Least(S) == CHOOSE x \in S : \A y \in S : x <= y

\* attemptConnectionRecovery: the first connection with the lowest
\* failureCount among those not recovering is marked recovering, and a
\* timer is set for it; conn = 0 stands for null
attemptConnectionRecovery(conns) ==
  LET cand == {i \in DOMAIN conns : ~conns[i].recovering}
  IN  IF cand = {} THEN [conn |-> 0, connections |-> conns, timer |-> 0]
      ELSE LET low == Least({conns[i].failureCount : i \in cand})
               best == Least({i \in cand : conns[i].failureCount = low})
           IN  [conn |-> best,
                connections |-> [conns EXCEPT ![best].recovering = TRUE],
                timer |-> best]

\* getAvailableConnection: the first healthy connection, not recovering,
\* with the lowest lastUsed below Date.now(); else a recovery is tried
getAvailableConnection(conns, t) ==
  LET cand == {i \in DOMAIN conns :
                 /\ conns[i].healthy /\ ~conns[i].recovering
                 /\ conns[i].lastUsed < t}
  IN  IF cand = {} THEN attemptConnectionRecovery(conns)
      ELSE LET low == Least({conns[i].lastUsed : i \in cand})
               best == Least({i \in cand : conns[i].lastUsed = low})
           IN  [conn |-> best,
                connections |-> [conns EXCEPT ![best].lastUsed = t],
                timer |-> 0]

resetConnections(conns) ==
  [i \in DOMAIN conns |->
     [conns[i] EXCEPT !.healthy = TRUE, !.failureCount = 0,
                      !.recovering = FALSE]]

markAllConnectionsUnhealthy(conns) ==
  [i \in DOMAIN conns |->
     [conns[i] EXCEPT !.healthy = FALSE, !.failureCount = @ + 1]]

\* the keys getCacheKey gives the requests that are made
CacheKeys == {"key1", "key2"}

\* response.data of a successful POST /api/generate for the request of key k
ResponseData(k) == [response |-> Str(<<"answer to", k>>)]

\* responseCache is a Map: its entries in insertion order
cacheKeys(cache) == {cache[i].key : i \in DOMAIN cache}

cacheIndex(cache, k) == CHOOSE i \in DOMAIN cache : cache[i].key = k

removeAt(cache, i) == SubSeq(cache, 1, i - 1) \o SubSeq(cache, i + 1, Len(cache))

\* an entry is expired: now - entry.timestamp > entry.ttl
expired(entry, t) == t - entry.timestamp > entry.ttl

\* getCachedResponse: [cache, hit, response]
getCachedResponse(cache, k, t) ==
  IF k \notin cacheKeys(cache)
  THEN [cache |-> cache, hit |-> FALSE, response |-> Undefined]
  ELSE LET i == cacheIndex(cache, k)
       IN  IF expired(cache[i], t)
           THEN [cache |-> removeAt(cache, i), hit |-> FALSE,
                 response |-> Undefined]
           ELSE [cache |-> cache, hit |-> TRUE,
                 response |-> cache[i].response]

\* the first n entries of the cache sorted by timestamp (the sort is
\* stable) are deleted
RECURSIVE removeOldest(_, _)
removeOldest(cache, n) ==
  IF n = 0 \/ cache = <<>> THEN cache
  ELSE LET low == Least({cache[i].timestamp : i \in DOMAIN cache})
           first == Least({i \in DOMAIN cache : cache[i].timestamp = low})
       IN  removeOldest(removeAt(cache, first), n - 1)

\* Math.floor(this.config.cacheMaxSize * 0.1)
toRemove(cfg) == cfg.cacheMaxSize \div 10

\* setCachedResponse: lines 672-691
setCachedResponse(cache, cfg, k, response, t) ==
  LET kept == IF Len(cache) >= cfg.cacheMaxSize
              THEN removeOldest(cache, toRemove(cfg)) ELSE cache
      entry == [key |-> k, response |-> response, timestamp |-> t,
                ttl |-> cfg.cacheTTL]
  IN  IF k \in cacheKeys(kept)
      THEN [kept EXCEPT ![cacheIndex(kept, k)] = entry]
      ELSE Append(kept, entry)

\* the cache clean-up timer: every expired entry is deleted
RECURSIVE cleanExpired(_, _)
cleanExpired(cache, t) ==
  IF cache = <<>> THEN <<>>
  ELSE (IF expired(Head(cache), t) THEN <<>> ELSE <<Head(cache)>>)
       \o cleanExpired(Tail(cache), t)

\* the cache keys of the requests followed where the cache fills up, in the
\* order in which new prompts come in
KeyOrder ==
  <<"key1", "key2", "key3", "key4", "key5", "key6", "key7", "key8", "key9",
    "key10", "key11">>

LruKeys == {KeyOrder[i] : i \in DOMAIN KeyOrder}

\* the first key of KeyOrder that the cache does not hold
freshKey(cache) ==
  KeyOrder[Least({i \in DOMAIN KeyOrder : KeyOrder[i] \notin cacheKeys(cache)})]

\* the constructor argument with which an eviction removes an entry:
\* Math.floor(cacheMaxSize * 0.1) is 1
EvictingConfigs ==
  { [maxConnections |-> 0, retryAttempts |-> 0, cacheMaxSize |-> 10,
     cacheTTL |-> 0] }

\* the catch block of generateResponse after attempt++: lines 789-799
afterFailure_throw(attempt, cfg) ==
  IF attempt >= cfg.retryAttempts THEN "throw" ELSE "wait"

afterFailure(attempt, cfg) ==
  IF attempt >= cfg.retryAttempts THEN "null" ELSE "wait"

\* the loop test of generateResponse: line 748
attemptAllowed(attempt, cfg) == attempt < cfg.retryAttempts

\* one invocation of generateResponse.  pc: "idle", "post" (awaiting the
\* HTTP call), "wait" (awaiting the retry delay), "done".  key, conn,
\* attempt: its locals.  result: what it returned or threw.  History:
\* posts, the number of HTTP calls made; used, the connections they were
\* made on; cached: the result came from the cache
IdleGen ==
  [pc |-> "idle", key |-> "none", conn |-> 0, attempt |-> 0,
   result |-> Returns(Undefined), posts |-> 0, used |-> {},
   cached |-> FALSE]

\* ------------------------------------------------------------ ClusterCache
maxCacheSize == 1000
defaultTTL == 300000

\* cluster.workers: the ids of the worker processes
Workers == {1, 2}

\* the keys, values and ttl arguments that set() is called with; ttl 0
\* stands for an argument that is not given
ClusterKeys == {"k1"}
ClusterValues == {"a", "b"}
TtlArgs == {0, 10000}

\* setLocal: lines 98-112
setLocal(cache, key, value, ttl, t) ==
  LET kept == IF Len(cache) >= maxCacheSize THEN Tail(cache) ELSE cache
      entry == [key |-> key, value |-> value, expiry |-> t + ttl, ttl |-> ttl]
  IN  IF key \in cacheKeys(kept)
      THEN [kept EXCEPT ![cacheIndex(kept, key)] = entry]
      ELSE Append(kept, entry)

\* getLocal: [cache, value]; value "null" when there is no entry or it has
\* expired (the expired entry is deleted): lines 114-125
getLocal(cache, key, t) ==
  IF key \notin cacheKeys(cache) THEN [cache |-> cache, value |-> "null"]
  ELSE LET i == cacheIndex(cache, key)
       IN  IF t > cache[i].expiry
           THEN [cache |-> removeAt(cache, i), value |-> "null"]
           ELSE [cache |-> cache, value |-> cache[i].value]

deleteLocal(cache, key) ==
  IF key \in cacheKeys(cache) THEN removeAt(cache, cacheIndex(cache, key))
  ELSE cache

clearLocal(cache) == <<>>

\* the clean-up timer: every entry with now > expiry is deleted
RECURSIVE cleanLocal(_, _)
cleanLocal(cache, t) ==
  IF cache = <<>> THEN <<>>
  ELSE (IF t > Head(cache).expiry THEN <<>> ELSE <<Head(cache)>>)
       \o cleanLocal(Tail(cache), t)

\* the messages set(), delete() and clear() send to the master; a field
\* that is not set is "none" (0 for ttl)
SetMessage(key, value, ttl, w) ==
  [type |-> "cache-set", key |-> key, value |-> value, ttl |-> ttl,
   workerId |-> w]

DeleteMessage(key, w) ==
  [type |-> "cache-delete", key |-> key, value |-> "none", ttl |-> 0,
   workerId |-> w]

ClearMessage(w) ==
  [type |-> "cache-clear", key |-> "none", value |-> "none", ttl |-> 0,
   workerId |-> w]

\* handleMessage on a worker: lines 54-76
handleMessage(cache, message, t) ==
  CASE message.type = "cache-set" ->
         IF message.key # "none" /\ message.value # "none"
         THEN setLocal(cache, message.key, message.value,
                       IF message.ttl # 0 THEN message.ttl ELSE defaultTTL, t)
         ELSE cache
    [] message.type = "cache-delete" ->
         IF message.key # "none" THEN deleteLocal(cache, message.key)
         ELSE cache
    [] message.type = "cache-clear" -> clearLocal(cache)
    [] OTHER -> cache

broadcast_toAll(channels, w, message) ==
  [o \in DOMAIN channels |-> Append(channels[o], message)]
\* the master's cluster.on('message'): the message of worker w goes to every
\* other worker: lines 39-50
broadcast(channels, w, message) ==
  [o \in DOMAIN channels |->
     IF o # w THEN Append(channels[o], message) ELSE channels[o]]

\* the number of messages on their way
RECURSIVE inFlight(_, _)
inFlight(channels, ws) ==
  IF ws = {} THEN 0
  ELSE LET w == CHOOSE x \in ws : TRUE
       IN  Len(channels[w]) + inFlight(channels, ws \ {w})
\* ----------------------------------------------------------- CrashRecovery
\* the defaults of the constructor: CrashRecovery.ts lines 58-67
DefaultRecoveryConfig == [autoRestart |-> TRUE, maxRestarts |-> 10]

\* the constructor arguments followed: nothing given, { autoRestart: false }
\* and { maxRestarts: 3 }
RecoveryConfigs == {"default", "noAutoRestart", "threeRestarts"}

\* { ...defaults, ...config }
makeRecoveryConfig(c) ==
  CASE c = "noAutoRestart" ->
         [DefaultRecoveryConfig EXCEPT !.autoRestart = FALSE]
    [] c = "threeRestarts" -> [DefaultRecoveryConfig EXCEPT !.maxRestarts = 3]
    [] OTHER -> DefaultRecoveryConfig

\* before the module is loaded.  healthCheckInterval: the health check
\* timer is set; listening: the process listeners of setupCrashHandlers are
\* installed
NoCrashRecovery ==
  [constructed |-> FALSE, config |-> DefaultRecoveryConfig, crashCount |-> 0,
   isShuttingDown |-> FALSE, healthCheckInterval |-> FALSE,
   listening |-> FALSE]

\* the process.  exitCode: -1 while it runs, else the argument of
\* process.exit.  restartPending: a timer of scheduleRestart is pending.
\* cleanupPending: the cleanup() promise of gracefulShutdown is pending.
\* scheduled is history: the calls of scheduleRestart since the crash count
\* was last reset
Running ==
  [exitCode |-> -1, restartPending |-> FALSE, cleanupPending |-> FALSE,
   scheduled |-> 0]

\* handleCrash: the new crashCount and what is done, lines 228-259
handleCrash_gt(cr) ==
  LET n == cr.crashCount + 1
  IN  [crashCount |-> n,
       does |-> IF n > cr.config.maxRestarts THEN "permanentShutdown"
                ELSE IF cr.config.autoRestart /\ ~cr.isShuttingDown
                THEN "scheduleRestart" ELSE "exit"]

handleCrash(cr) ==
  LET n == cr.crashCount + 1
  IN  [crashCount |-> n,
       does |-> IF n >= cr.config.maxRestarts THEN "permanentShutdown"
                ELSE IF cr.config.autoRestart /\ ~cr.isShuttingDown
                THEN "scheduleRestart" ELSE "exit"]
\* ----------------------------------------------------------- ServerManager
maxRestarts == 5

\* the keys of this.config
ProcessNames == {"backend", "frontend"}

\* no entry of this.processes
NoProcess ==
  [known |-> FALSE, running |-> FALSE, restarts |-> 0, status |-> "none"]

\* the entry startProcess stores for the child it has spawned (lines 80-86);
\* running: the child process has not exited
spawned == [known |-> TRUE, running |-> TRUE, restarts |-> 0,
            status |-> "starting"]

\* new ServerManager(); exited: the manager has called process.exit;
\* timers: the pending restart timers of each process
NewServerManager ==
  [processes |-> [name \in ProcessNames |-> NoProcess],
   timers |-> [name \in ProcessNames |-> 0],
   isShuttingDown |-> FALSE, exited |-> FALSE]

\* handleProcessExit: the new restart count and whether a restart is
\* scheduled, lines 149-167
handleProcessExit(processInfo) ==
  LET n == processInfo.restarts + 1
  IN  [restarts |-> n, restart |-> ~(n >= maxRestarts)]
\* how often execute() invokes the wrapped function: once, when the call is
\* admitted (part_002 line 383)
invocations_retry(a) == IF a.admitted THEN 2 ELSE 0

invocations(a) == IF a.admitted THEN 1 ELSE 0

\* processMessage is followed one invocation at a time; execute() calls that
\* overlap on one breaker are the subject of SpecCB
Requests == {"request"}

\* one invocation of processMessage.  pc: "idle", "rag" (awaiting
\* safeRAGCall), "ollama" (awaiting safeOllamaCall), "done" (returned or
\* threw).  message, ragResponse: its locals.  started: when the timer of
\* the pending breaker call was set.  The rest is history for the claims:
\* how the two breaker calls ended, what Ollama replied, whether the catch
\* block ran; body, status: the message field of the request body and the
\* HTTP status the route answers with; pc "rejected": the route answered 400
\* by itself; ragSaw: the state execute() found the RAG breaker in;
\* ragCalls, ollamaCalls: how often executeRAGCall / executeOllamaCall were
\* invoked; ollamaAsked, ollamaSystem: safeOllamaCall was called, and with
\* which second argument.
IdleRequest ==
  [pc |-> "idle", message |-> <<>>, started |-> 0,
   ragResponse |-> NullReply, ragOutcome |-> "none",
   ollamaOutcome |-> "none", ollamaResponse |-> Undefined,
   caught |-> FALSE, threw |-> FALSE, response |-> NoResponse,
   ragSaw |-> "none", ragCalls |-> 0, ollamaCalls |-> 0,
   ollamaAsked |-> FALSE, ollamaSystem |-> Undefined,
   body |-> Undefined, status |-> 0]

Init ==
  /\ now = StartTime
  /\ breaker = CircuitBreakerInit
  /\ calls = [c \in Calls |-> IdleCall]
  /\ streak = 0
  /\ ragCircuitBreaker = CircuitBreakerInit
  /\ ollamaCircuitBreaker = CircuitBreakerInit
  /\ reqs = [r \in Requests |-> IdleRequest]
  /\ ragQueries = [c \in RagClients |-> NoQuery]
  /\ processing = 0
  /\ queue = <<>>
  /\ tickets = 0
  /\ lastStarted = 0
  /\ rqEvent = NoEvent
  /\ config = NoConfig
  /\ connections = <<>>
  /\ responseCache = <<>>
  /\ serviceStatus = "healthy"
  /\ consecutiveFailures = 0
  /\ restartTimeout = FALSE
  /\ recoveryTimers = {}
  /\ gen = IdleGen
  /\ recentKey = "none"
  /\ localCache = [w \in Workers |-> <<>>]
  /\ toMaster = [w \in Workers |-> <<>>]
  /\ toWorker = [w \in Workers |-> <<>>]
  /\ crashRecovery = NoCrashRecovery
  /\ nodeProcess = Running
  /\ serverManager = NewServerManager
  /\ restarted = [name \in ProcessNames |-> 0]
  /\ suggested = NoSuggestions

\* the clock advances
Tick ==
  /\ now < MaxTime
  /\ now' = now + TickMs
  /\ UNCHANGED <<cbVars, notCB>>

\* breaker.execute(...) is called: lines 357-385
Execute(c) ==
  /\ calls[c].pc = "idle"
  /\ LET a == executeAdmit(breaker, OllamaOptions, now)
     IN  /\ breaker' = a.cb
         /\ calls' = [calls EXCEPT ![c] =
              IF a.admitted
              THEN [pc |-> "pending", fn |-> "running", outcome |-> "none",
                    started |-> now,
                    trial |-> (breaker.state = "OPEN"), sawState |-> "none"]
              ELSE [pc |-> "settled", fn |-> "none", outcome |-> "open",
                    started |-> 0, trial |-> FALSE, sawState |-> "OPEN"]]
  /\ UNCHANGED <<now, streak, notCB>>

\* the wrapped function resolves before the timer: lines 387-391
FnResolve(c) ==
  /\ calls[c].pc = "pending"
  /\ breaker' = executeSettle(breaker, OllamaOptions, now, "ok")
  /\ calls' = [calls EXCEPT ![c] =
       [pc |-> "settled", fn |-> "done", outcome |-> "ok", started |-> 0,
        trial |-> FALSE, sawState |-> breaker.state]]
  /\ streak' = 0
  /\ UNCHANGED <<now, notCB>>

\* the wrapped function rejects before the timer: lines 393-397
FnReject(c) ==
  /\ calls[c].pc = "pending"
  /\ breaker.failures < MaxFailures
  /\ breaker' = executeSettle(breaker, OllamaOptions, now, "error")
  /\ calls' = [calls EXCEPT ![c] =
       [pc |-> "settled", fn |-> "done", outcome |-> "error", started |-> 0,
        trial |-> FALSE, sawState |-> breaker.state]]
  /\ streak' = streak + 1
  /\ UNCHANGED <<now, notCB>>

\* the timer fires first: lines 375-379, 393-397; the wrapped call goes on
TimeoutFire(c) ==
  /\ calls[c].pc = "pending"
  /\ timerDue(OllamaOptions, calls[c].started, now)
  /\ breaker.failures < MaxFailures
  /\ breaker' = executeSettle(breaker, OllamaOptions, now, "timeout")
  /\ calls' = [calls EXCEPT ![c] =
       [pc |-> "settled", fn |-> "running", outcome |-> "timeout",
        started |-> 0, trial |-> FALSE, sawState |-> breaker.state]]
  /\ streak' = streak + 1
  /\ UNCHANGED <<now, notCB>>

\* the wrapped call of a timed-out execute() settles at last
LateSettle(c) ==
  /\ calls[c].pc = "settled"
  /\ calls[c].fn = "running"
  /\ \E ok \in BOOLEAN :
       breaker' = lateSettlement(breaker, OllamaOptions, now, ok)
  /\ calls' = [calls EXCEPT ![c].fn = "done"]
  /\ UNCHANGED <<now, streak, notCB>>

\* the caller has its result; the slot is free for the next call
Return(c) ==
  /\ calls[c].pc = "settled"
  /\ calls[c].fn # "running"
  /\ calls' = [calls EXCEPT ![c] = IdleCall]
  /\ UNCHANGED <<now, breaker, streak, notCB>>

\* breaker.reset(): lines 433-438
Reset ==
  /\ breaker' = reset(breaker)
  /\ streak' = 0
  /\ UNCHANGED <<now, calls, notCB>>

NextCB ==
  \/ Tick
  \/ \E c \in Calls : Execute(c)
  \/ \E c \in Calls : FnResolve(c)
  \/ \E c \in Calls : FnReject(c)
  \/ \E c \in Calls : TimeoutFire(c)
  \/ \E c \in Calls : LateSettle(c)
  \/ \E c \in Calls : Return(c)
  \/ Reset

SpecCB == Init /\ [][NextCB]_vars

\* ------------------------------------ CircuitBreaker under fair scheduling
\* the execute() calls awaiting Promise.race
pendingCalls == {c \in Calls : calls[c].pc = "pending"}

\* the timers that have run out fire before the clock goes on
TickTimers ==
  /\ \A c \in pendingCalls : ~timerDue(OllamaOptions, calls[c].started, now)
  /\ Tick

\* execute() is called while the clock explored leaves room for its timer
\* and the failure counter for the failure of every pending call
ExecuteInTime(c) ==
  /\ now + OllamaOptions.timeout <= MaxTime
  /\ breaker.failures + Cardinality(pendingCalls) < MaxFailures
  /\ Execute(c)

NextCBFair ==
  \/ TickTimers
  \/ \E c \in Calls : ExecuteInTime(c)
  \/ \E c \in Calls : FnResolve(c)
  \/ \E c \in Calls : FnReject(c)
  \/ \E c \in Calls : TimeoutFire(c)
  \/ \E c \in Calls : LateSettle(c)
  \/ \E c \in Calls : Return(c)
  \/ Reset

\* the event loop runs the timers: the clock goes on and a timer that has
\* run out fires; nothing is assumed of the wrapped function
SpecCBFair ==
  /\ Init
  /\ [][NextCBFair]_vars
  /\ WF_vars(TickTimers)
  /\ \A c \in Calls : WF_vars(TimeoutFire(c))

\* ------------------------- CircuitBreaker with a dependency that recovers
\* the dependency fails (by rejecting or by not answering in time) only
\* while the clock explored leaves room for resetTimeout: from then on every
\* call succeeds
mayFail == now + OllamaOptions.resetTimeout <= MaxTime

FnRejectEarly(c) == mayFail /\ FnReject(c)

TimeoutFireEarly(c) == mayFail /\ TimeoutFire(c)

NextCBRecover ==
  \/ Tick
  \/ \E c \in Calls : Execute(c)
  \/ \E c \in Calls : FnResolve(c)
  \/ \E c \in Calls : FnRejectEarly(c)
  \/ \E c \in Calls : TimeoutFireEarly(c)
  \/ \E c \in Calls : LateSettle(c)
  \/ \E c \in Calls : Return(c)
  \/ Reset

\* the clock goes on, execute() keeps being called, and the wrapped
\* function settles every call
SpecCBRecover ==
  /\ Init
  /\ [][NextCBRecover]_vars
  /\ WF_vars(Tick)
  /\ \A c \in Calls :
       /\ WF_vars(Execute(c))
       /\ WF_vars(FnResolve(c))
       /\ WF_vars(LateSettle(c))
       /\ WF_vars(Return(c))

\* ------------------------------------------- processMessage: the actions
finished(req, result) ==
  [req EXCEPT !.pc = "done", !.started = 0, !.caught = result.caught,
              !.threw = result.threw, !.response = result.response,
              !.status = IF result.threw THEN 500 ELSE 200]

\* processMessage resumes with the value rr of safeRAGCall and runs to its
\* return or to the await of safeOllamaCall (lines 286-311); req is the
\* request with the outcome of the RAG call recorded.
ResumeAfterRAG(r, req) ==
  LET locals == afterRAG(req.ragResponse)
  IN  CASE locals.next = "respond" ->
             /\ reqs' = [reqs EXCEPT ![r] =
                  finished(req, respond(req.message, locals.finalResponse,
                                        locals.usedRAG, locals.sources,
                                        [ollama |-> "healthy",
                                         rag |-> locals.rag]))]
             /\ UNCHANGED ollamaCircuitBreaker
        [] locals.next = "throw" ->
             /\ reqs' = [reqs EXCEPT ![r] =
                  finished(req, onProcessError(req.message))]
             /\ UNCHANGED ollamaCircuitBreaker
        [] locals.next = "ollama" ->
             LET a == executeAdmit(ollamaCircuitBreaker, OllamaOptions, now)
                 asked == [req EXCEPT !.ollamaAsked = TRUE,
                                      !.ollamaSystem = systemArgument(locals),
                                      !.ollamaCalls = invocations(a)]
             IN  /\ ollamaCircuitBreaker' = a.cb
                 /\ reqs' = [reqs EXCEPT ![r] =
                      IF a.admitted
                      THEN [asked EXCEPT !.pc = "ollama", !.started = now]
                      ELSE finished([asked EXCEPT !.ollamaOutcome = "open"],
                                    afterOllama(req.message, locals,
                                                Undefined))]

\* processMessage(message) is called: lines 264-284, and on from there when
\* the RAG breaker rejects the call
ProcessMessage(r, message) ==
  /\ reqs[r].pc = "idle"
  /\ LET a == executeAdmit(ragCircuitBreaker, RagOptions, now)
         called == [IdleRequest EXCEPT !.message = message,
                                       !.body = Str(message),
                                       !.ragSaw = ragCircuitBreaker.state,
                                       !.ragCalls = invocations(a)]
     IN  /\ ragCircuitBreaker' = a.cb
         /\ IF a.admitted
            THEN /\ reqs' = [reqs EXCEPT ![r] =
                      [called EXCEPT !.pc = "rag", !.started = now]]
                 /\ UNCHANGED ollamaCircuitBreaker
            ELSE ResumeAfterRAG(r, [called EXCEPT !.ragOutcome = "open"])
  /\ UNCHANGED <<now, notPM>>

\* POST /api/chat/message with req.body.message = message: routes/chat.ts
\* lines 7-34
PostMessage(r, message) ==
  IF messageRejected(message)
  THEN /\ reqs[r].pc = "idle"
       /\ reqs' = [reqs EXCEPT ![r] =
            [IdleRequest EXCEPT !.pc = "rejected", !.body = message,
                                !.status = 400]]
       /\ UNCHANGED <<now, notPM, ragCircuitBreaker, ollamaCircuitBreaker>>
  ELSE ProcessMessage(r, message.v)

\* executeRAGCall resolves with the parsed JSON reply
RagResolve(r, reply) ==
  /\ reqs[r].pc = "rag"
  /\ ragCircuitBreaker' = executeSettle(ragCircuitBreaker, RagOptions, now, "ok")
  /\ ResumeAfterRAG(r, [reqs[r] EXCEPT !.ragResponse = reply,
                                       !.ragOutcome = "ok"])
  /\ UNCHANGED <<now, notPM>>

\* executeRAGCall rejects: exec failed or timed out, or stdout is no JSON
RagReject(r) ==
  /\ reqs[r].pc = "rag"
  /\ ragCircuitBreaker.failures < MaxFailures
  /\ ragCircuitBreaker' =
       executeSettle(ragCircuitBreaker, RagOptions, now, "error")
  /\ ResumeAfterRAG(r, [reqs[r] EXCEPT !.ragOutcome = "error"])
  /\ UNCHANGED <<now, notPM>>

\* the timer of the RAG breaker fires first
RagTimeout(r) ==
  /\ reqs[r].pc = "rag"
  /\ timerDue(RagOptions, reqs[r].started, now)
  /\ ragCircuitBreaker.failures < MaxFailures
  /\ ragCircuitBreaker' =
       executeSettle(ragCircuitBreaker, RagOptions, now, "timeout")
  /\ ResumeAfterRAG(r, [reqs[r] EXCEPT !.ragOutcome = "timeout"])
  /\ UNCHANGED <<now, notPM>>

\* executeOllamaCall resolves with response.data.response
OllamaResolve(r, reply) ==
  /\ reqs[r].pc = "ollama"
  /\ ollamaCircuitBreaker' =
       executeSettle(ollamaCircuitBreaker, OllamaOptions, now, "ok")
  /\ reqs' = [reqs EXCEPT ![r] =
       finished([reqs[r] EXCEPT !.ollamaOutcome = "ok",
                                !.ollamaResponse = reply],
                afterOllama(reqs[r].message, afterRAG(reqs[r].ragResponse),
                            reply))]
  /\ UNCHANGED <<now, notPM, ragCircuitBreaker>>

\* executeOllamaCall rejects: time-out, connection refused, other error
OllamaReject(r) ==
  /\ reqs[r].pc = "ollama"
  /\ ollamaCircuitBreaker.failures < MaxFailures
  /\ ollamaCircuitBreaker' =
       executeSettle(ollamaCircuitBreaker, OllamaOptions, now, "error")
  /\ reqs' = [reqs EXCEPT ![r] =
       finished([reqs[r] EXCEPT !.ollamaOutcome = "error"],
                afterOllama(reqs[r].message, afterRAG(reqs[r].ragResponse),
                            Undefined))]
  /\ UNCHANGED <<now, notPM, ragCircuitBreaker>>

\* the timer of the Ollama breaker fires first
OllamaTimeout(r) ==
  /\ reqs[r].pc = "ollama"
  /\ timerDue(OllamaOptions, reqs[r].started, now)
  /\ ollamaCircuitBreaker.failures < MaxFailures
  /\ ollamaCircuitBreaker' =
       executeSettle(ollamaCircuitBreaker, OllamaOptions, now, "timeout")
  /\ reqs' = [reqs EXCEPT ![r] =
       finished([reqs[r] EXCEPT !.ollamaOutcome = "timeout"],
                afterOllama(reqs[r].message, afterRAG(reqs[r].ragResponse),
                            Undefined))]
  /\ UNCHANGED <<now, notPM, ragCircuitBreaker>>

\* the route has sent the response; the slot takes the next request
Deliver(r) ==
  /\ reqs[r].pc \in {"done", "rejected"}
  /\ reqs' = [reqs EXCEPT ![r] = IdleRequest]
  /\ UNCHANGED <<now, notPM, ragCircuitBreaker, ollamaCircuitBreaker>>

\* resetCircuitBreakers(): lines 412-416
ResetCircuitBreakers ==
  /\ ollamaCircuitBreaker' = reset(ollamaCircuitBreaker)
  /\ ragCircuitBreaker' = reset(ragCircuitBreaker)
  /\ UNCHANGED <<now, notPM, reqs>>

NextPM ==
  \/ Tick
  \/ \E r \in Requests, message \in BodyMessages : PostMessage(r, message)
  \/ \E r \in Requests, reply \in RagReplies : RagResolve(r, reply)
  \/ \E r \in Requests : RagReject(r)
  \/ \E r \in Requests : RagTimeout(r)
  \/ \E r \in Requests, reply \in OllamaReplies : OllamaResolve(r, reply)
  \/ \E r \in Requests : OllamaReject(r)
  \/ \E r \in Requests : OllamaTimeout(r)
  \/ \E r \in Requests : Deliver(r)
  \/ ResetCircuitBreakers

SpecPM == Init /\ [][NextPM]_vars

\* --------------------------------------- the RAG clients: the actions
\* ChatService.processMessage awaits callRAG(message): line 329
CallRAG(question, x) ==
  /\ ragQueries' = [ragQueries EXCEPT !["ChatService"] =
       [called |-> TRUE, question |-> question, exec |-> x,
        inner |-> callRAG(question, x), result |-> callRAG(question, x)]]
  /\ UNCHANGED <<now, notRC>>

\* BulletproofChatService.processMessage awaits safeRAGCall(message), whose
\* breaker admitted the call and did not time it out: line 283
SafeRAGCall(question, x) ==
  /\ ragQueries' = [ragQueries EXCEPT !["BulletproofChatService"] =
       [called |-> TRUE, question |-> question, exec |-> x,
        inner |-> executeRAGCall(question, x),
        result |-> safeRAGCall(executeRAGCall(question, x))]]
  /\ UNCHANGED <<now, notRC>>

NextRC ==
  \/ \E question \in Messages, x \in ExecResults : CallRAG(question, x)
  \/ \E question \in Messages, x \in ExecResults : SafeRAGCall(question, x)

SpecRC == Init /\ [][NextRC]_vars

\* ------------------------------------------------ RequestQueue: actions
\* requestQueue.process(fn) for a POST /api/chat/message: lines 179-205
Process ==
  /\ IF queueFull(queue)
     THEN /\ rqEvent' = [op |-> "process", result |-> "rejected",
                         status |-> queueMiddlewareStatus("rejected"),
                         flip |-> ~rqEvent.flip]
          /\ UNCHANGED <<processing, queue, tickets>>
     ELSE IF slotFree(processing)
     THEN /\ processing' = processing + 1
          /\ rqEvent' = [op |-> "process", result |-> "started",
                         status |-> 0, flip |-> ~rqEvent.flip]
          /\ UNCHANGED <<queue, tickets>>
     ELSE /\ tickets < MaxTickets
          /\ tickets' = tickets + 1
          /\ queue' = Append(queue, tickets + 1)
          /\ rqEvent' = [op |-> "process", result |-> "queued",
                         status |-> 0, flip |-> ~rqEvent.flip]
          /\ UNCHANGED processing
  /\ UNCHANGED <<now, lastStarted, notRQ>>

\* fn of a running request settles (the response emitted finish or close,
\* or fn threw): the rest of processRequest, lines 189-197, and processNext
Finish(outcome) ==
  /\ processing > 0
  /\ LET a == afterRequest(processing, queue)
     IN  /\ processing' = a.processing
         /\ queue' = a.queue
         /\ lastStarted' = IF a.started # 0 THEN a.started ELSE lastStarted
  /\ rqEvent' = [rqEvent EXCEPT !.op = "finish", !.result = outcome,
                                !.status = 0]
  /\ UNCHANGED <<now, tickets, notRQ>>

NextRQ ==
  \/ Process
  \/ \E outcome \in {"resolved", "threw"} : Finish(outcome)

SpecRQ == Init /\ [][NextRQ]_vars

\* process() in the runs followed for liveness: the requests that have to
\* wait are counted up to MaxWaited
ProcessSome ==
  /\ slotFree(processing) \/ tickets < MaxWaited
  /\ Process

NextRQFair ==
  \/ ProcessSome
  \/ \E outcome \in {"resolved", "threw"} : Finish(outcome)

\* every running request finishes: its response emits finish or close, or
\* its function throws (lines 219-223)
SpecRQFair ==
  /\ Init
  /\ [][NextRQFair]_vars
  /\ WF_vars(\E outcome \in {"resolved", "threw"} : Finish(outcome))

\* -------------------------------------------- OllamaResilience: actions
\* new OllamaResilience(c): lines 457-474
Construct(c) ==
  /\ config = NoConfig
  /\ config' = makeConfig(c)
  /\ connections' = initializeConnections(makeConfig(c))
  /\ UNCHANGED <<now, responseCache, serviceStatus, consecutiveFailures,
                 restartTimeout, recoveryTimers, gen, notOR>>

\* generateResponse settles with result
settled(g, result) == [g EXCEPT !.pc = "done", !.result = result]

\* generateResponse(model, prompt, system) is called for the request with
\* cache key k, and runs to its first await or its return: lines 714-757
GenerateResponse(k) ==
  /\ config # NoConfig
  /\ gen.pc = "idle"
  /\ LET c == getCachedResponse(responseCache, k, now)
         a == getAvailableConnection(connections, now)
         g == [IdleGen EXCEPT !.key = k]
     IN  /\ responseCache' = c.cache
         /\ IF c.hit
            THEN /\ gen' = settled([g EXCEPT !.cached = TRUE],
                                   Returns(c.response))
                 /\ UNCHANGED <<connections, recoveryTimers>>
            ELSE IF serviceStatus = "down"
            THEN /\ gen' = settled(g, Returns(Undefined))
                 /\ UNCHANGED <<connections, recoveryTimers>>
            ELSE /\ connections' = a.connections
                 /\ recoveryTimers' =
                      IF a.timer # 0 THEN recoveryTimers \cup {a.timer}
                      ELSE recoveryTimers
                 /\ gen' =
                      IF a.conn = 0 \/ ~attemptAllowed(0, config)
                      THEN settled(g, Returns(Undefined))
                      ELSE [g EXCEPT !.pc = "post", !.conn = a.conn,
                                     !.posts = 1, !.used = {a.conn}]
  /\ UNCHANGED <<now, config, serviceStatus, consecutiveFailures,
                 restartTimeout, notOR>>

\* the POST resolves with data that has a response: lines 757-772
PostSucceeds ==
  /\ gen.pc = "post"
  /\ connections' = [connections EXCEPT
       ![gen.conn].healthy = TRUE,
       ![gen.conn].failureCount = IF @ > 0 THEN @ - 1 ELSE 0]
  /\ responseCache' = setCachedResponse(responseCache, config, gen.key,
                                        ResponseData(gen.key), now)
  /\ gen' = settled(gen, Returns(ResponseData(gen.key)))
  /\ UNCHANGED <<now, config, serviceStatus, consecutiveFailures,
                 restartTimeout, recoveryTimers, notOR>>

\* the POST rejects, or resolves with data that has no response: the catch
\* block, lines 777-803
PostFails ==
  /\ gen.pc = "post"
  /\ connections[gen.conn].failureCount < MaxConnFailures
  /\ connections' = [connections EXCEPT
       ![gen.conn].failureCount = @ + 1,
       ![gen.conn].healthy =
          IF connections[gen.conn].failureCount + 1 >= 3 THEN FALSE ELSE @]
  /\ LET next == afterFailure(gen.attempt + 1, config)
         g == [gen EXCEPT !.attempt = @ + 1]
     IN  gen' = CASE next = "null" -> settled(g, Returns(Undefined))
                  [] next = "throw" ->
                       settled(g, Threw(<<"Request failed">>))
                  [] next = "wait" -> [g EXCEPT !.pc = "wait"]
  /\ UNCHANGED <<now, config, responseCache, serviceStatus,
                 consecutiveFailures, restartTimeout, recoveryTimers, notOR>>

\* the retry delay is over: the loop test and the next POST, lines 748-757
RetryDelayOver ==
  /\ gen.pc = "wait"
  /\ gen' = IF attemptAllowed(gen.attempt, config)
            THEN [gen EXCEPT !.pc = "post", !.posts = @ + 1,
                             !.used = @ \cup {gen.conn}]
            ELSE settled(gen, Returns(Undefined))
  /\ UNCHANGED <<now, config, connections, responseCache, serviceStatus,
                 consecutiveFailures, restartTimeout, recoveryTimers, notOR>>

\* the caller has the result of generateResponse
GenReturn ==
  /\ gen.pc = "done"
  /\ gen' = IdleGen
  /\ UNCHANGED <<now, config, connections, responseCache, serviceStatus,
                 consecutiveFailures, restartTimeout, recoveryTimers, notOR>>

\* GET /api/tags of performHealthCheck settles: "200", "2xx" (another
\* success status) or "failed": lines 521-548
HealthCheck(outcome) ==
  /\ config # NoConfig
  /\ CASE outcome = "200" ->
            /\ consecutiveFailures' = 0
            /\ IF serviceStatus = "down"
               THEN /\ serviceStatus' = "healthy"
                    /\ connections' = resetConnections(connections)
               ELSE UNCHANGED <<serviceStatus, connections>>
            /\ UNCHANGED restartTimeout
       [] outcome = "2xx" ->
            UNCHANGED <<consecutiveFailures, serviceStatus, connections,
                        restartTimeout>>
       [] outcome = "failed" ->
            /\ consecutiveFailures < MaxConnFailures
            /\ \A i \in DOMAIN connections :
                 connections[i].failureCount < MaxConnFailures
            /\ consecutiveFailures' = consecutiveFailures + 1
            /\ IF consecutiveFailures + 1 >= 3
               THEN /\ serviceStatus' = "down"
                    /\ connections' = markAllConnectionsUnhealthy(connections)
                    /\ restartTimeout' = TRUE
               ELSE /\ serviceStatus' =
                         IF consecutiveFailures + 1 >= 2 THEN "degraded"
                         ELSE serviceStatus
                    /\ UNCHANGED <<connections, restartTimeout>>
  /\ UNCHANGED <<now, config, responseCache, recoveryTimers, gen, notOR>>

\* the restart timer fires: attemptRestart, up to its await, lines 580-591
AttemptRestart ==
  /\ restartTimeout
  /\ restartTimeout' = FALSE
  /\ consecutiveFailures' =
       IF consecutiveFailures > 0 THEN consecutiveFailures - 1 ELSE 0
  /\ UNCHANGED <<now, config, connections, responseCache, serviceStatus,
                 recoveryTimers, gen, notOR>>

\* the recovery timer of connection i fires: lines 638-645
ConnectionRecovered(i) ==
  /\ i \in recoveryTimers
  /\ recoveryTimers' = recoveryTimers \ {i}
  /\ connections' = [connections EXCEPT ![i].healthy = TRUE,
                                        ![i].recovering = FALSE,
                                        ![i].lastUsed = now]
  /\ UNCHANGED <<now, config, responseCache, serviceStatus,
                 consecutiveFailures, restartTimeout, gen, notOR>>

\* the clean-up timer fires: lines 693-712
CacheCleanup ==
  /\ config # NoConfig
  /\ responseCache' = cleanExpired(responseCache, now)
  /\ UNCHANGED <<now, config, connections, serviceStatus,
                 consecutiveFailures, restartTimeout, recoveryTimers, gen,
                 notOR>>

\* clearCache(): lines 843-846
ClearCache ==
  /\ config # NoConfig
  /\ responseCache' = <<>>
  /\ UNCHANGED <<now, config, connections, serviceStatus,
                 consecutiveFailures, restartTimeout, recoveryTimers, gen,
                 notOR>>

\* the clock advances
TickOR ==
  /\ now < MaxTimeOR
  /\ now' = now + TickMs
  /\ UNCHANGED <<orVars, notOR>>

NextOR ==
  \/ TickOR
  \/ \E c \in PartialConfigs : Construct(c)
  \/ \E k \in CacheKeys : GenerateResponse(k)
  \/ PostSucceeds
  \/ PostFails
  \/ RetryDelayOver
  \/ GenReturn
  \/ \E outcome \in {"200", "2xx", "failed"} : HealthCheck(outcome)
  \/ AttemptRestart
  \/ \E i \in ConnectionIds : ConnectionRecovered(i)
  \/ CacheCleanup
  \/ ClearCache

SpecOR == Init /\ [][NextOR]_vars

\* ---------------------------- OllamaResilience: the response cache filling
\* generateResponse is called, one call at a time, with Ollama healthy

\* generateResponse for the request with cache key k, up to the return of
\* getCachedResponse: a hit returns the cached response (lines 714-727)
CachedRequest(k) ==
  /\ config # NoConfig
  /\ k \in cacheKeys(responseCache)
  /\ LET c == getCachedResponse(responseCache, k, now)
     IN  /\ responseCache' = c.cache
         /\ recentKey' = IF c.hit THEN k ELSE recentKey
  /\ UNCHANGED <<now, config, notLRU>>

\* generateResponse for a request whose key k is not cached: the lookup
\* misses, the POST succeeds and its data is stored (lines 714-772)
FreshRequest(k) ==
  /\ config # NoConfig
  /\ k = freshKey(responseCache)
  /\ responseCache' = setCachedResponse(responseCache, config, k,
                                        ResponseData(k), now)
  /\ recentKey' = k
  /\ UNCHANGED <<now, config, notLRU>>

\* new OllamaResilience(c) with a cache limit of ten entries
ConstructLRU(c) ==
  /\ config = NoConfig
  /\ config' = makeConfig(c)
  /\ connections' = initializeConnections(makeConfig(c))
  /\ UNCHANGED <<now, responseCache, serviceStatus, consecutiveFailures,
                 restartTimeout, recoveryTimers, gen, recentKey, notOR>>

\* the clock advances
TickLRU ==
  /\ now < MaxTimeOR
  /\ now' = now + TickMs
  /\ UNCHANGED <<orVars, notOR>>

NextLRU ==
  \/ TickLRU
  \/ \E c \in EvictingConfigs : ConstructLRU(c)
  \/ \E k \in LruKeys : CachedRequest(k)
  \/ \E k \in LruKeys : FreshRequest(k)

SpecLRU == Init /\ [][NextLRU]_vars

\* ------------------------------------------------- ClusterCache: actions
\* the messages on their way to the master or to a worker
pending == inFlight(toMaster, Workers) + inFlight(toWorker, Workers)

\* worker w calls set(key, value, ttl): lines 147-162
Set(w, key, value, ttl) ==
  /\ pending < MaxInFlight
  /\ LET t == IF ttl # 0 THEN ttl ELSE defaultTTL
     IN  /\ localCache' = [localCache EXCEPT
              ![w] = setLocal(@, key, value, t, now)]
         /\ toMaster' = [toMaster EXCEPT
              ![w] = Append(@, SetMessage(key, value, t, w))]
  /\ UNCHANGED <<now, toWorker, notCC>>

\* worker w calls get(key): lines 164-175
Get(w, key) ==
  /\ localCache' = [localCache EXCEPT ![w] = getLocal(@, key, now).cache]
  /\ UNCHANGED <<now, toMaster, toWorker, notCC>>

\* worker w calls delete(key): lines 177-190
Delete(w, key) ==
  /\ pending < MaxInFlight
  /\ localCache' = [localCache EXCEPT ![w] = deleteLocal(@, key)]
  /\ toMaster' = [toMaster EXCEPT ![w] = Append(@, DeleteMessage(key, w))]
  /\ UNCHANGED <<now, toWorker, notCC>>

\* worker w calls clear(): lines 192-204
Clear(w) ==
  /\ pending < MaxInFlight
  /\ localCache' = [localCache EXCEPT ![w] = clearLocal(@)]
  /\ toMaster' = [toMaster EXCEPT ![w] = Append(@, ClearMessage(w))]
  /\ UNCHANGED <<now, toWorker, notCC>>

\* the master receives the next message of worker w and sends it to the
\* other workers: lines 39-50
MasterRelays(w) ==
  /\ toMaster[w] # <<>>
  /\ toMaster' = [toMaster EXCEPT ![w] = Tail(@)]
  /\ toWorker' = broadcast(toWorker, w, Head(toMaster[w]))
  /\ UNCHANGED <<now, localCache, notCC>>

\* worker w receives the next message of the master: lines 35-37
WorkerReceives(w) ==
  /\ toWorker[w] # <<>>
  /\ toWorker' = [toWorker EXCEPT ![w] = Tail(@)]
  /\ localCache' = [localCache EXCEPT
       ![w] = handleMessage(@, Head(toWorker[w]), now)]
  /\ UNCHANGED <<now, toMaster, notCC>>

\* the clean-up timer of worker w fires: lines 135-144
CleanupLocal(w) ==
  /\ localCache' = [localCache EXCEPT ![w] = cleanLocal(@, now)]
  /\ UNCHANGED <<now, toMaster, toWorker, notCC>>

\* the clock advances
TickCC ==
  /\ now < MaxTimeOR
  /\ now' = now + TickMs
  /\ UNCHANGED <<ccVars, notCC>>

NextCC ==
  \/ TickCC
  \/ \E w \in Workers, key \in ClusterKeys, value \in ClusterValues,
        ttl \in TtlArgs : Set(w, key, value, ttl)
  \/ \E w \in Workers, key \in ClusterKeys : Get(w, key)
  \/ \E w \in Workers, key \in ClusterKeys : Delete(w, key)
  \/ \E w \in Workers : Clear(w)
  \/ \E w \in Workers : MasterRelays(w)
  \/ \E w \in Workers : WorkerReceives(w)
  \/ \E w \in Workers : CleanupLocal(w)

SpecCC == Init /\ [][NextCC]_vars

\* ------------------------------------------------ CrashRecovery: actions
\* export const crashRecovery = new CrashRecovery(c): lines 56-74
ConstructCR(c) ==
  /\ ~crashRecovery.constructed
  /\ crashRecovery' = [crashRecovery EXCEPT
       !.constructed = TRUE, !.config = makeRecoveryConfig(c),
       !.healthCheckInterval = TRUE, !.listening = TRUE]
  /\ UNCHANGED <<now, nodeProcess, notCR>>

\* the process is running with its handlers installed
alive == crashRecovery.constructed /\ nodeProcess.exitCode = -1

\* an uncaughtException or unhandledRejection event: the crash report is
\* saved and handleCrash runs, lines 84-101 and 228-259
Crash(type) ==
  /\ alive
  /\ crashRecovery.listening
  /\ LET h == handleCrash(crashRecovery)
     IN  /\ crashRecovery' = [crashRecovery EXCEPT !.crashCount = h.crashCount]
         /\ nodeProcess' =
              CASE h.does = "permanentShutdown" ->
                     [nodeProcess EXCEPT !.exitCode = 1]
                [] h.does = "scheduleRestart" ->
                     [nodeProcess EXCEPT !.restartPending = TRUE,
                                         !.scheduled = @ + 1]
                [] h.does = "exit" -> [nodeProcess EXCEPT !.exitCode = 1]
  /\ UNCHANGED <<now, notCR>>

\* a timer of scheduleRestart fires: process.exit(0) under PM2 and in
\* attemptManualRestart, lines 261-291
RestartTimerFires ==
  /\ alive
  /\ nodeProcess.restartPending
  /\ nodeProcess' = [nodeProcess EXCEPT !.exitCode = 0]
  /\ UNCHANGED <<now, crashRecovery, notCR>>

\* SIGTERM or SIGINT: gracefulShutdown up to cleanup(), lines 293-311
Signal(signal) ==
  /\ alive
  /\ crashRecovery.listening
  /\ IF crashRecovery.isShuttingDown
     THEN UNCHANGED <<crashRecovery, nodeProcess>>
     ELSE /\ crashRecovery' = [crashRecovery EXCEPT
               !.isShuttingDown = TRUE, !.healthCheckInterval = FALSE]
          /\ nodeProcess' = [nodeProcess EXCEPT !.cleanupPending = TRUE]
  /\ UNCHANGED <<now, notCR>>

\* the cleanup() promise of gracefulShutdown resolves: lines 312-317
CleanupDone ==
  /\ alive
  /\ nodeProcess.cleanupPending
  /\ nodeProcess' = [nodeProcess EXCEPT !.exitCode = 0,
                                        !.cleanupPending = FALSE]
  /\ UNCHANGED <<now, crashRecovery, notCR>>

\* the timer of setupRecoveryReset fires: lines 408-419
RecoveryReset ==
  /\ alive
  /\ IF crashRecovery.crashCount > 0
     THEN /\ crashRecovery' = [crashRecovery EXCEPT !.crashCount = 0]
          /\ nodeProcess' = [nodeProcess EXCEPT !.scheduled = 0]
     ELSE UNCHANGED <<crashRecovery, nodeProcess>>
  /\ UNCHANGED <<now, notCR>>

\* stop(): the health check timer is cleared and the process listeners are
\* removed, lines 480-492
Stop ==
  /\ alive
  /\ crashRecovery' = [crashRecovery EXCEPT !.healthCheckInterval = FALSE,
                                           !.listening = FALSE]
  /\ UNCHANGED <<now, nodeProcess, notCR>>

\* an uncaught exception, or a signal, with the listeners removed: the
\* process ends by the default of the runtime
Unhandled ==
  /\ alive
  /\ ~crashRecovery.listening
  /\ nodeProcess' = [nodeProcess EXCEPT !.exitCode = 1]
  /\ UNCHANGED <<now, crashRecovery, notCR>>

NextCR ==
  \/ \E c \in RecoveryConfigs : ConstructCR(c)
  \/ \E type \in {"uncaughtException", "unhandledRejection"} : Crash(type)
  \/ RestartTimerFires
  \/ \E signal \in {"SIGTERM", "SIGINT"} : Signal(signal)
  \/ CleanupDone
  \/ RecoveryReset
  \/ Stop
  \/ Unhandled

SpecCR == Init /\ [][NextCR]_vars

\* ------------------------------------------------ ServerManager: actions
\* start() calls startProcess(name); portFree: the port is free after the
\* clean-up.  When it is not, startProcess returns false and start() calls
\* stop(): lines 62-94, 198-222
StartProcess(name, portFree) ==
  /\ ~serverManager.exited /\ ~serverManager.isShuttingDown
  /\ ~serverManager.processes[name].known
  /\ serverManager.timers[name] = 0
  /\ serverManager' =
       IF portFree
       THEN [serverManager EXCEPT !.processes[name] = spawned]
       ELSE [serverManager EXCEPT !.isShuttingDown = TRUE]
  /\ UNCHANGED <<now, restarted, notSM>>

\* the child prints that it is ready: lines 93-101
ChildReady(name) ==
  /\ ~serverManager.exited
  /\ serverManager.processes[name].running
  /\ serverManager.processes[name].status = "starting"
  /\ serverManager' = [serverManager EXCEPT
       !.processes[name].status = "running"]
  /\ UNCHANGED <<now, restarted, notSM>>

\* the child of name exits: process.on('close') and handleProcessExit,
\* lines 118-127 and 149-167
ChildExits(name) ==
  /\ ~serverManager.exited
  /\ serverManager.processes[name].running
  /\ LET info == [serverManager.processes[name] EXCEPT
                    !.running = FALSE, !.status = "stopped"]
         h == handleProcessExit(info)
     IN  serverManager' =
           IF serverManager.isShuttingDown
           THEN [serverManager EXCEPT !.processes[name] = info]
           ELSE [serverManager EXCEPT
                   !.processes[name] = [info EXCEPT !.restarts = h.restarts],
                   !.timers[name] = IF h.restart THEN @ + 1 ELSE @]
  /\ UNCHANGED <<now, restarted, notSM>>

\* a restart timer of name fires: startProcess(name) unless the manager is
\* shutting down, lines 161-165 and 62-94
RestartProcess(name, portFree) ==
  /\ ~serverManager.exited
  /\ serverManager.timers[name] > 0
  /\ restarted[name] < MaxRestarted
  /\ IF ~serverManager.isShuttingDown /\ portFree
     THEN /\ serverManager' = [serverManager EXCEPT
               !.timers[name] = @ - 1, !.processes[name] = spawned]
          /\ restarted' = [restarted EXCEPT ![name] = @ + 1]
     ELSE /\ serverManager' = [serverManager EXCEPT !.timers[name] = @ - 1]
          /\ UNCHANGED restarted
  /\ UNCHANGED <<now, notSM>>

\* SIGINT, SIGTERM or the stop command: stop() up to its first await,
\* lines 224-232
StopManager ==
  /\ ~serverManager.exited /\ ~serverManager.isShuttingDown
  /\ serverManager' = [serverManager EXCEPT !.isShuttingDown = TRUE]
  /\ UNCHANGED <<now, restarted, notSM>>

\* stop() ends: process.exit(0), lines 234-239
ManagerExits ==
  /\ ~serverManager.exited /\ serverManager.isShuttingDown
  /\ serverManager' = [serverManager EXCEPT !.exited = TRUE]
  /\ UNCHANGED <<now, restarted, notSM>>

NextSM ==
  \/ \E name \in ProcessNames, portFree \in BOOLEAN :
       StartProcess(name, portFree)
  \/ \E name \in ProcessNames : ChildReady(name)
  \/ \E name \in ProcessNames : ChildExits(name)
  \/ \E name \in ProcessNames, portFree \in BOOLEAN :
       RestartProcess(name, portFree)
  \/ StopManager
  \/ ManagerExits

SpecSM == Init /\ [][NextSM]_vars

\* ---------------------------------------------- the suggestions: actions
\* both services make the suggestions for the response text
Suggest(text) ==
  /\ suggested' =
       [asked |-> TRUE, text |-> text,
        bulletproof |-> generateSuggestions(Str(text)),
        chatService |-> generateSuggestionsFromResponse(text)]
  /\ UNCHANGED <<now, notGS>>

NextGS == \E text \in ResponseTexts : Suggest(text)

SpecGS == Init /\ [][NextGS]_vars

\* ------------------------------------------------ CircuitBreaker claims
\* the step in which the race of call c settles with a failure
FailsIn(c) ==
  /\ calls[c].pc = "pending"
  /\ calls'[c].outcome \in {"error", "timeout"}

\* the step in which execute() is entered for call c
EntersIn(c) == calls[c].pc = "idle" /\ calls'[c].pc # "idle"

\* C1: whenever a failing call completes a run of failureThreshold failed
\* calls with no success (and no reset) in between, counted from the
\* initial CLOSED/0 state, the breaker is OPEN right after that failure.
C1_ThresholdOpens ==
  [][\A c \in Calls :
       (FailsIn(c) /\ streak' >= OllamaOptions.failureThreshold)
         => breaker'.state = "OPEN"]_vars

C1_Witness ==
  /\ streak = OllamaOptions.failureThreshold
  /\ breaker.state = "OPEN"
  /\ \E c \in Calls : calls[c].outcome \in {"error", "timeout"}

\* C2: an execute() entered while the breaker is OPEN and less than
\* resetTimeout has passed since lastFailureTime is rejected at once with
\* the circuit-open error, does not invoke the wrapped function and leaves
\* state, failures and lastFailureTime as they were.
C2_OpenRejects ==
  [][\A c \in Calls :
       (/\ EntersIn(c)
        /\ breaker.state = "OPEN"
        /\ now - breaker.lastFailureTime < OllamaOptions.resetTimeout)
         => /\ calls'[c].pc = "settled"
            /\ calls'[c].outcome = "open"
            /\ calls'[c].fn = "none"
            /\ breaker' = breaker]_vars

C2_Witness ==
  /\ breaker.state = "OPEN"
  /\ now - breaker.lastFailureTime < OllamaOptions.resetTimeout
  /\ \E c \in Calls : calls[c].outcome = "open" /\ calls[c].fn = "none"

\* C3: an execute() entered while the breaker is OPEN and at least
\* resetTimeout has passed since lastFailureTime is not rejected: the state
\* becomes HALF_OPEN and the wrapped function is invoked.
C3_ResetAttempt ==
  [][\A c \in Calls :
       (/\ EntersIn(c)
        /\ breaker.state = "OPEN"
        /\ now - breaker.lastFailureTime >= OllamaOptions.resetTimeout)
         => /\ breaker'.state = "HALF_OPEN"
            /\ calls'[c].pc = "pending"
            /\ calls'[c].fn = "running"]_vars

C3_Witness ==
  /\ breaker.state = "HALF_OPEN"
  /\ now - breaker.lastFailureTime >= OllamaOptions.resetTimeout
  /\ \E c \in Calls :
       calls[c].trial /\ calls[c].pc = "pending" /\ calls[c].started = now

\* C4: a call that completes successfully while the state is HALF_OPEN
\* leaves the breaker CLOSED with failure count 0.
C4_HalfOpenSuccessCloses ==
  [][\A c \in Calls :
       (/\ calls[c].pc = "pending"
        /\ calls'[c].outcome = "ok"
        /\ breaker.state = "HALF_OPEN")
         => (breaker'.state = "CLOSED" /\ breaker'.failures = 0)]_vars

C4_Witness ==
  /\ breaker.state = "CLOSED"
  /\ breaker.failures = 0
  /\ breaker.lastFailureTime > 0
  /\ \E c \in Calls : calls[c].outcome = "ok" /\ calls[c].sawState = "HALF_OPEN"

\* C5: under any interleaving, a call that fails while the state is
\* HALF_OPEN leaves the breaker OPEN with lastFailureTime = time of failure.
C5_HalfOpenFailureOpens ==
  [][\A c \in Calls :
       (FailsIn(c) /\ breaker.state = "HALF_OPEN")
         => (breaker'.state = "OPEN" /\ breaker'.lastFailureTime = now)]_vars

\* C6: while a HALF_OPEN trial call is in flight, no other execute() call
\* reaches the wrapped function.
C6_SingleTrial ==
  [][\A c \in Calls :
       (/\ EntersIn(c)
        /\ breaker.state = "HALF_OPEN"
        /\ \E d \in Calls \ {c} : calls[d].pc = "pending" /\ calls[d].trial)
         => calls'[c].fn = "none"]_vars

\* C7: a call that times out rejects with the timeout error and changes the
\* breaker exactly as a call whose wrapped function throws: failures + 1,
\* lastFailureTime = now, OPEN once failures reaches failureThreshold and
\* the state kept below it; the later settlement of the wrapped call of a
\* timed-out execute() changes nothing in the breaker.
C7_TimeoutIsFailure ==
  [][\A c \in Calls :
       /\ FailsIn(c) =>
            /\ breaker'.failures = breaker.failures + 1
            /\ breaker'.lastFailureTime = now
            /\ breaker'.state =
                 IF breaker.failures + 1 >= OllamaOptions.failureThreshold
                 THEN "OPEN" ELSE breaker.state
       /\ (calls[c].pc = "pending" /\ calls'[c].fn = "running"
             /\ calls'[c].pc = "settled")
            => calls'[c].outcome = "timeout"
       /\ (calls[c].outcome = "timeout" /\ calls[c].fn = "running"
             /\ calls'[c].fn = "done")
            => breaker' = breaker]_vars

C7_Witness ==
  /\ breaker.state = "OPEN"
  /\ \E c \in Calls :
       /\ calls[c].outcome = "timeout"
       /\ calls[c].fn = "done"
       /\ calls[c].sawState = "CLOSED"

\* ------------------------------------------------ processMessage claims
Returned(r) == reqs[r].pc = "done"

Failed(outcome) == outcome \in {"error", "timeout", "open"}

GreetingForms ==
  {<<w>> : w \in {"hi", "hello", "hey"}}
    \cup {<<w, "!">> : w \in {"hi", "hello", "hey"}}

GreetingMessage(m) == toLowerCase(trim(m)) \in GreetingForms

BothFailed(r) ==
  /\ Returned(r)
  /\ Failed(reqs[r].ragOutcome)
  /\ Failed(reqs[r].ollamaOutcome)

C10_NeverThrows ==
  \A r \in Requests :
    Returned(r)
      => /\ ~reqs[r].threw
         /\ reqs[r].response.text # Undefined
         /\ Len(reqs[r].response.suggestions) > 0

C10_Witness ==
  \E r \in Requests :
    /\ Returned(r)
    /\ reqs[r].caught
    /\ ~reqs[r].threw
    /\ reqs[r].ollamaResponse = Obj
    /\ reqs[r].response.text = Str(ServiceNoticeText)
    /\ ragCircuitBreaker.state = "OPEN"

\* C11: one request makes at most one RAG call and at most one LLM call, in
\* that order: while the RAG call is awaited no LLM call has been asked for
\* or made, an LLM call is asked for only once the RAG call has settled, and
\* a call that failed has still been made only once.
C11_OneCallEach ==
  \A r \in Requests :
    /\ reqs[r].ragCalls <= 1
    /\ reqs[r].ollamaCalls <= 1
    /\ reqs[r].pc = "rag" => ~reqs[r].ollamaAsked /\ reqs[r].ollamaCalls = 0
    /\ reqs[r].ollamaAsked => reqs[r].ragOutcome # "none"
    /\ reqs[r].ollamaCalls > 0 => reqs[r].ollamaAsked
    /\ reqs[r].pc = "ollama" =>
         reqs[r].ollamaCalls = 1 /\ reqs[r].ollamaOutcome = "none"

\* both calls were made and both failed
C11_Witness ==
  \E r \in Requests :
    /\ Returned(r)
    /\ reqs[r].ragOutcome = "error" /\ reqs[r].ragCalls = 1
    /\ reqs[r].ollamaOutcome = "timeout" /\ reqs[r].ollamaCalls = 1

\* C12: every ChatResponse processMessage returns, on the RAG path, the LLM
\* path and every fallback path, has exactly 3 suggestions and at most 4
\* relatedTopics.
C12_ListSizes ==
  \A r \in Requests :
    Returned(r) /\ ~reqs[r].threw =>
      /\ Len(reqs[r].response.suggestions) = 3
      /\ Len(reqs[r].response.relatedTopics) <= 4

\* C13 as stated: whenever processMessage finds the RAG breaker OPEN, or the
\* RAG call fails through the breaker, no RAG subprocess is run, the LLM is
\* called through its breaker with the default system prompt, and a
\* successful LLM call gives rag_used = false and no sources.
C13_OpenOrFailedRunsNothing ==
  \A r \in Requests :
    reqs[r].ragSaw = "OPEN" \/ Failed(reqs[r].ragOutcome) =>
      /\ reqs[r].ragCalls = 0
      /\ reqs[r].ollamaAsked
      /\ requestSystem(reqs[r].ollamaSystem) = Str(systemPrompt)
      /\ Returned(r) /\ reqs[r].ollamaOutcome = "ok" =>
           ~reqs[r].response.rag_used /\ reqs[r].response.sources = NoSources

\* the breaker rejects: OPEN and resetTimeout not elapsed
RagRejects ==
  /\ ragCircuitBreaker.state = "OPEN"
  /\ now - ragCircuitBreaker.lastFailureTime < RagOptions.resetTimeout

\* C13, amended: a call of processMessage that finds the RAG breaker OPEN
\* with resetTimeout not elapsed runs no RAG subprocess; in that case, and when the RAG call
\* fails through the breaker after the subprocess ran, safeRAGCall gives
\* null, the LLM is called through its breaker with the default system
\* prompt, and a successful LLM call gives rag_used = false and no sources.
C13_RagUnavailable ==
  /\ [][\A r \in Requests :
          (/\ reqs[r].pc = "idle"
           /\ reqs'[r].pc \notin {"idle", "rejected"}
           /\ RagRejects) =>
            reqs'[r].ragOutcome = "open" /\ reqs'[r].ragCalls = 0]_vars
  /\ [](\A r \in Requests :
          /\ reqs[r].ragOutcome = "open" => reqs[r].ragCalls = 0
          /\ Failed(reqs[r].ragOutcome) =>
               /\ reqs[r].ragResponse = NullReply
               /\ reqs[r].ollamaAsked
               /\ requestSystem(reqs[r].ollamaSystem) = Str(systemPrompt)
               /\ Returned(r) /\ reqs[r].ollamaOutcome = "ok" =>
                    /\ ~reqs[r].response.rag_used
                    /\ reqs[r].response.sources = NoSources)

\* the RAG breaker rejected the call and the LLM answered
C13_Witness ==
  \E r \in Requests :
    /\ Returned(r)
    /\ reqs[r].ragOutcome = "open" /\ reqs[r].ragCalls = 0
    /\ reqs[r].ollamaOutcome = "ok" /\ reqs[r].ollamaCalls = 1
    /\ reqs[r].response.text =
         Str(<<"Capital", " ", "Gains", " ", "Tax", " ", "advice">>)

\* the response text is the formatted reply of a successful LLM call
TextFromLLM(r) ==
  /\ Returned(r) /\ ~reqs[r].caught
  /\ reqs[r].ollamaOutcome = "ok"
  /\ reqs[r].ollamaResponse.t = "string"
  /\ trim(reqs[r].ollamaResponse.v) # <<>>

\* the snippets of the RAG sources were folded into the system prompt
ContextFolded(r) ==
  /\ ~reqs[r].ragResponse.isNull
  /\ reqs[r].ragResponse.sources.t = "array"
  /\ reqs[r].ragResponse.sources.v # <<>>
  /\ requestSystem(reqs[r].ollamaSystem) =
       Str(systemPrompt \o <<"\n\nHMRC CONTEXT:\n">>
             \o joinContext(reqs[r].ragResponse.sources.v))

\* C14: on the LLM path, when the response text comes from a successful LLM
\* call, rag_used is true only if RAG source snippets were folded into the
\* system prompt of that call: without RAG context rag_used is false.
C14_RagUsedOnlyWithContext ==
  \A r \in Requests :
    TextFromLLM(r) =>
      /\ reqs[r].response.text.v # <<>>
      /\ reqs[r].response.rag_used => ContextFolded(r)
      /\ ~ContextFolded(r) =>
           /\ ~reqs[r].response.rag_used
           /\ requestSystem(reqs[r].ollamaSystem) = Str(systemPrompt)

\* an LLM answer given without RAG context
C14_Witness ==
  \E r \in Requests :
    /\ TextFromLLM(r) /\ ~ContextFolded(r)
    /\ reqs[r].ragOutcome = "ok"
    /\ ~reqs[r].response.rag_used

\* the body has no message, or one that is not a (non-empty) string
BadBody(b) == b.t # "string" \/ b.v = <<>>

\* C16: POST /api/chat/message with a body that has no message, or a message
\* that is not a string, is answered with HTTP 400 without a call of
\* processMessage: no RAG or LLM call is made or asked for, and both circuit
\* breakers keep their state, failure count and lastFailureTime.
C16_BadRequest ==
  /\ [](\A r \in Requests :
          /\ reqs[r].pc # "idle" =>
               (reqs[r].pc = "rejected" <=> BadBody(reqs[r].body))
          /\ reqs[r].pc = "rejected" =>
               /\ reqs[r].status = 400
               /\ reqs[r].ragSaw = "none" /\ reqs[r].ragOutcome = "none"
               /\ reqs[r].ragCalls = 0 /\ reqs[r].ollamaCalls = 0
               /\ ~reqs[r].ollamaAsked
               /\ reqs[r].response = NoResponse)
  /\ [][\A r \in Requests :
          reqs[r].pc = "idle" /\ reqs'[r].pc = "rejected" =>
            /\ ragCircuitBreaker' = ragCircuitBreaker
            /\ ollamaCircuitBreaker' = ollamaCircuitBreaker]_vars

\* a message that is an object is rejected while the RAG breaker is OPEN
\* and the Ollama breaker has counted a failure
C16_Witness ==
  \E r \in Requests :
    /\ reqs[r].pc = "rejected" /\ reqs[r].body = Obj
    /\ ragCircuitBreaker.state = "OPEN"
    /\ ollamaCircuitBreaker.failures > 0

\* C35: whenever the returned ChatResponse carries a non-empty sources list,
\* rag_used is true.
C35_SourcesImplyRagUsed ==
  \A r \in Requests :
    (/\ reqs[r].pc = "done" /\ ~reqs[r].threw
     /\ reqs[r].response.sources.t = "array"
     /\ reqs[r].response.sources.v # <<>>)
      => reqs[r].response.rag_used
\* the LLM call succeeded with a reply that is the empty string, or that is
\* only whitespace while no RAG source gave context
EmptyLlmReply(r) ==
  /\ reqs[r].ollamaOutcome = "ok"
  /\ reqs[r].ollamaResponse.t = "string"
  /\ \/ reqs[r].ollamaResponse.v = <<>>
     \/ /\ \A i \in 1..Len(reqs[r].ollamaResponse.v) :
             reqs[r].ollamaResponse.v[i] \in {" ", "\n"}
        /\ \/ reqs[r].ragResponse.isNull
           \/ reqs[r].ragResponse.sources.t # "array"
           \/ reqs[r].ragResponse.sources.v = <<>>

\* C36: the text of every returned ChatResponse is non-empty (neither
\* missing nor the empty string): an LLM reply that is empty, or that is
\* only whitespace with no RAG context, yields the canned fallback like a
\* failed LLM call does, although the LLM circuit breaker has counted that
\* call as a success (it is CLOSED with a failure count of 0).
C36_TextNonEmpty ==
  \A r \in Requests :
    (reqs[r].pc = "done" /\ ~reqs[r].threw) =>
      /\ reqs[r].response.text.t # "undefined"
      /\ reqs[r].response.text.t = "string" =>
           reqs[r].response.text.v # <<>>
      /\ EmptyLlmReply(r) =>
           /\ reqs[r].response = generateFallbackResponse(reqs[r].message)
           /\ ollamaCircuitBreaker.state = "CLOSED"
           /\ ollamaCircuitBreaker.failures = 0

\* the LLM answered with whitespace only after an earlier LLM call had
\* failed: the caller got the canned fallback and the failure count is 0
C36_Witness ==
  \E r \in Requests :
    /\ reqs[r].pc = "done"
    /\ reqs[r].ollamaOutcome = "ok"
    /\ reqs[r].ollamaResponse = Str(<<" ", "\n">>)
    /\ reqs[r].response = generateFallbackResponse(reqs[r].message)
    /\ ollamaCircuitBreaker.failures = 0
    /\ ollamaCircuitBreaker.lastFailureTime > 0
\* ------------------------------------------------------ RAG client claims
\* the external call failed: non-zero exit, time-out, or malformed JSON
ExternalFailure(x) ==
  x.exit \in {"nonzero", "timeout"} \/ x.stdout.json = "malformed"

\* a value with rag_available = false, fallback_mode = true and an error
FailureValue(v) ==
  /\ ~v.isNull
  /\ ~v.rag_available
  /\ v.fallback_mode
  /\ "error" \in DOMAIN v
  /\ v.error.t = "string" /\ v.error.v # <<>>

\* C15 as stated: on any failure of the external call the query of a RAG
\* client gives its caller a value with available = false, fallbackMode =
\* true and an error field, and does not throw.
C15_FailureIsValue ==
  \A c \in RagClients :
    ragQueries[c].called /\ ExternalFailure(ragQueries[c].exec) =>
      ~ragQueries[c].result.threw /\ FailureValue(ragQueries[c].result.value)

\* C15, amended: on any failure of the external call ChatService.callRAG
\* returns a value with rag_available = false, fallback_mode = true and an
\* error field; BulletproofChatService.executeRAGCall throws 'RAG system
\* error: ...' and safeRAGCall gives null for it; in both services the
\* caller receives a value and no exception.
C15_CallerGetsValue ==
  \A c \in RagClients :
    ragQueries[c].called /\ ExternalFailure(ragQueries[c].exec) =>
      /\ ~ragQueries[c].result.threw
      /\ c = "ChatService" =>
           /\ ~ragQueries[c].inner.threw
           /\ FailureValue(ragQueries[c].result.value)
      /\ c = "BulletproofChatService" =>
           /\ ragQueries[c].inner.threw
           /\ SubSeq(ragQueries[c].inner.error.v, 1, 1) =
                <<"RAG system error: ">>
           /\ ragQueries[c].result.value = NullReply

\* the subprocess of one client timed out, the other wrote no JSON
C15_Witness ==
  /\ ragQueries["ChatService"].called
  /\ ragQueries["ChatService"].exec.exit = "timeout"
  /\ ragQueries["BulletproofChatService"].called
  /\ ragQueries["BulletproofChatService"].exec.exit = "ok"
  /\ ragQueries["BulletproofChatService"].exec.stdout.json = "malformed"

\* ----------------------------------------------------- RequestQueue claims
\* C17: after any sequence of arrivals and completions the number of
\* requests being processed never exceeds maxConcurrent (10) and the number
\* of waiting requests never exceeds maxQueue (100).
C17_QueueBounds ==
  /\ processing >= 0 /\ processing <= maxConcurrent
  /\ Len(queue) <= maxQueue

\* all slots are taken and the queue is full
C17_Witness == processing = maxConcurrent /\ Len(queue) = maxQueue

\* a call of process(): every arrival toggles rqEvent.flip
Arrives == rqEvent'.flip # rqEvent.flip

\* C18: a request that arrives when maxQueue requests are already waiting
\* is rejected with 'Request queue full', which the middleware answers with
\* HTTP 503; its function is neither run nor queued, and the processing
\* count and the waiting queue are left unchanged.
C18_FullQueueRejects ==
  [][Arrives /\ Len(queue) = maxQueue =>
       /\ rqEvent'.op = "process" /\ rqEvent'.result = "rejected"
       /\ rqEvent'.status = 503
       /\ processing' = processing
       /\ queue' = queue
       /\ tickets' = tickets /\ lastStarted' = lastStarted]_vars

\* a request was rejected by the full queue
C18_Witness ==
  /\ rqEvent.result = "rejected" /\ rqEvent.status = 503
  /\ Len(queue) = maxQueue /\ processing = maxConcurrent

\* C31: the queue is work-conserving: in every state between operations, a
\* non-empty waiting queue implies that exactly maxConcurrent requests are
\* being processed; no request waits while a slot is free.
C31_WorkConserving ==
  Len(queue) > 0 => processing = maxConcurrent

\* requests wait, and the end of a running request has started one of them
C31_Witness ==
  /\ Len(queue) > 0
  /\ lastStarted > 0
  /\ rqEvent.op = "finish"
  /\ processing = maxConcurrent
\* the requests that wait, by ticket; tickets are handed out in arrival order
waiting == {queue[i] : i \in 1..Len(queue)}

\* C32: every request accepted into the waiting queue is eventually
\* started, and the waiting requests are started in arrival order, provided
\* every running request eventually finishes; the end of a request whose
\* function threw frees its slot like any other: the slot goes to the head
\* of the queue, or processing drops by one when nobody waits.
C32_QueuedAreStarted ==
  /\ \A t \in 1..MaxWaited : (t \in waiting) ~> (lastStarted = t)
  /\ [][lastStarted' # lastStarted =>
          /\ lastStarted' = lastStarted + 1
          /\ lastStarted' = Head(queue)
          /\ queue' = Tail(queue)]_vars
  /\ [][~Arrives /\ rqEvent'.result = "threw" =>
          IF Len(queue) > 0
          THEN lastStarted' = Head(queue) /\ processing' = processing
          ELSE processing' = processing - 1]_vars

\* a request that had to wait behind another one was started when a request
\* whose function threw came to its end
C32_Witness ==
  /\ lastStarted >= 2
  /\ rqEvent.op = "finish" /\ rqEvent.result = "threw"
  /\ Len(queue) > 0
\* ------------------------------------------------- OllamaResilience claims
\* C19: for one request generateResponse makes at most retryAttempts (3 by
\* default) HTTP calls, all on one connection; when a call succeeds its data
\* is returned and no further call is made; when all calls fail the result
\* is null; no exception reaches the caller.
C19_BoundedRetries ==
  /\ [](/\ gen.posts <= config.retryAttempts
        /\ Cardinality(gen.used) <= 1
        /\ gen.posts = gen.attempt + (IF gen.pc = "post" THEN 1 ELSE 0)
                       + (IF gen.pc = "done" /\ ~gen.cached
                             /\ gen.result.value # Undefined THEN 1 ELSE 0)
        /\ gen.pc = "done" =>
             /\ ~gen.result.threw
             /\ gen.attempt = config.retryAttempts =>
                  gen.result = Returns(Undefined))
  /\ [][/\ (gen.pc = "post" /\ gen'.pc = "done"
                /\ gen'.attempt = gen.attempt) =>
               (/\ gen'.result = Returns(ResponseData(gen.key))
                /\ gen'.posts = gen.posts)
        /\ gen.pc = "done" => gen'.pc \in {"done", "idle"}]_vars

\* three calls were made, all failed, and null was returned
C19_Witness ==
  /\ config.retryAttempts = 3
  /\ gen.pc = "done" /\ gen.posts = 3 /\ gen.attempt = 3
  /\ gen.result = Returns(Undefined)

\* C20: after any sequence of setCachedResponse calls, for any configured
\* cacheMaxSize >= 1, the cache never holds more than cacheMaxSize entries.
C20_CacheBounded ==
  config # NoConfig => Len(responseCache) <= config.cacheMaxSize

\* the step in which setCachedResponse finds the cache full and stores the
\* response of a new key
EvictingStore ==
  /\ config # NoConfig
  /\ Len(responseCache) >= config.cacheMaxSize
  /\ \E k \in LruKeys \ cacheKeys(responseCache) :
       responseCache' = setCachedResponse(responseCache, config, k,
                                          ResponseData(k), now)

\* C21: the response cache evicts the least recently used entries: the
\* entry that was used last (stored or returned by a cache hit) is not
\* removed by an eviction that keeps other entries.
C21_LruEviction ==
  [][EvictingStore =>
       \/ recentKey \in cacheKeys(responseCache')
       \/ cacheKeys(responseCache) \cap cacheKeys(responseCache') = {}]_vars

\* the RAG reply rr carries a usable answer: available, a non-empty answer
\* text, not fallback mode
UsableAnswer(rr) ==
  /\ ~rr.isNull
  /\ rr.rag_available = TRUE
  /\ rr.answer.t = "string" /\ rr.answer.v # <<>>
  /\ rr.fallback_mode = FALSE

\* C26: when the RAG call returns a usable answer, processMessage returns
\* without asking for the LLM call: executeOllamaCall is not invoked, and
\* the steps of that request leave the LLM circuit breaker's state, failure
\* count and lastFailureTime as they were.
C26_LlmUntouched ==
  /\ [](\A r \in Requests :
          (reqs[r].ragOutcome = "ok" /\ UsableAnswer(reqs[r].ragResponse)) =>
            /\ reqs[r].pc = "done"
            /\ ~reqs[r].ollamaAsked
            /\ reqs[r].ollamaCalls = 0
            /\ reqs[r].ollamaOutcome = "none")
  /\ [][\A r \in Requests :
          (/\ reqs'[r] # reqs[r]
           /\ \/ reqs'[r].pc = "rag"
              \/ /\ reqs'[r].ragOutcome = "ok"
                 /\ UsableAnswer(reqs'[r].ragResponse)) =>
            ollamaCircuitBreaker' = ollamaCircuitBreaker]_vars

\* a usable RAG answer was returned while the LLM breaker was OPEN with
\* failures counted
C26_Witness ==
  \E r \in Requests :
    /\ Returned(r)
    /\ reqs[r].ragOutcome = "ok" /\ UsableAnswer(reqs[r].ragResponse)
    /\ reqs[r].response.rag_used
    /\ ollamaCircuitBreaker.state = "OPEN"
    /\ ollamaCircuitBreaker.failures >= 3
\* C33: whenever a health check succeeds (GET /api/tags answers 200),
\* consecutiveFailures is 0 and serviceStatus is 'healthy' afterwards,
\* whatever the status was before ('healthy', 'degraded' or 'down').
C33_SuccessMakesHealthy ==
  [][HealthCheck("200") =>
       consecutiveFailures' = 0 /\ serviceStatus' = "healthy"]_vars
\* ----------------------------------------------------- ClusterCache claims
\* every broadcast message has been delivered
Delivered == pending = 0

\* what worker w holds for key: the value of its unexpired entry, "expired"
\* for an entry past its expiry, "null" for no entry
held(w, key) ==
  IF key \notin cacheKeys(localCache[w]) THEN "null"
  ELSE LET e == localCache[w][cacheIndex(localCache[w], key)]
       IN  IF now > e.expiry THEN "expired" ELSE e.value

\* C22: once every broadcast message has been delivered, no two workers
\* hold different unexpired values for one key, whatever the interleaving of
\* the set, delete and clear calls of the workers was.
C22_SameValues ==
  Delivered =>
    \A key \in ClusterKeys : \A w1, w2 \in Workers :
      (held(w1, key) \in ClusterValues /\ held(w2, key) \in ClusterValues)
        => held(w1, key) = held(w2, key)

\* the deliveries worker o is still to get: the messages waiting in its
\* channel and the messages of the other workers the master has yet to relay
owed(o) == Len(toWorker[o]) + inFlight(toMaster, Workers \ {o})

\* the handling steps left for the messages on their way: a message to the
\* master takes its relay and one delivery to each other worker
propagation ==
  Cardinality(Workers) * inFlight(toMaster, Workers)
    + inFlight(toWorker, Workers)

\* C34: a cache message received from another worker is applied to the local
\* cache only and is never broadcast again; one set/delete/clear by a worker
\* causes exactly one delivery to each other worker (and none to itself),
\* and propagation terminates: every relay and every delivery takes one off
\* the handling steps that are left.
C34_NoEcho ==
  [][\A w \in Workers :
       /\ WorkerReceives(w) =>
            /\ toMaster' = toMaster
            /\ owed(w)' = owed(w) - 1
            /\ \A o \in Workers \ {w} :
                 owed(o)' = owed(o) /\ localCache'[o] = localCache[o]
            /\ propagation' = propagation - 1
       /\ MasterRelays(w) =>
            /\ \A o \in Workers : owed(o)' = owed(o)
            /\ Len(toWorker'[w]) = Len(toWorker[w])
            /\ propagation' = propagation - 1
       /\ Len(toMaster'[w]) > Len(toMaster[w]) =>
            /\ owed(w)' = owed(w)
            /\ \A o \in Workers \ {w} : owed(o)' = owed(o) + 1]_vars

\* both workers hold an entry and no message is on its way: every set made
\* has been delivered to the other worker
C34_Witness ==
  /\ pending = 0
  /\ \A w \in Workers : localCache[w] # <<>>
\* ---------------------------------------------------- CrashRecovery claims
\* the step in which handleCrash runs
Crashes == crashRecovery'.crashCount = crashRecovery.crashCount + 1

SucceedsIn(c) == calls[c].pc = "pending" /\ calls'[c].outcome = "ok"

\* C28: a call that succeeds while the breaker is CLOSED leaves it CLOSED
\* with failure count 0, and the breaker leaves CLOSED only in a step that
\* completes a run of failureThreshold failed calls with no success between
\* them: failures separated by a success do not open the circuit.
C28_SuccessResetsCount ==
  [][/\ \A c \in Calls :
          (SucceedsIn(c) /\ breaker.state = "CLOSED") =>
            (breaker'.state = "CLOSED" /\ breaker'.failures = 0)
     /\ (breaker.state = "CLOSED" /\ breaker'.state # "CLOSED") =>
          /\ \E c \in Calls : FailsIn(c)
          /\ streak' >= OllamaOptions.failureThreshold
          /\ breaker'.state = "OPEN"]_vars

\* one call at a time: after a failure a success has set the count back to
\* 0 with the breaker still CLOSED
C28_Witness ==
  /\ breaker.state = "CLOSED" /\ breaker.failures = 0
  /\ breaker.lastFailureTime > 0 /\ streak = 0
  /\ \E c \in Calls :
       /\ calls[c].outcome = "ok" /\ calls[c].sawState = "CLOSED"
       /\ \A d \in Calls \ {c} : calls[d].pc = "idle"

\* C29: in every reachable state, under any interleaving of concurrent
\* execute() calls and reset(), an OPEN or HALF_OPEN breaker has a failure
\* count of at least failureThreshold.
C29_OpenHasThreshold ==
  breaker.state \in {"OPEN", "HALF_OPEN"} =>
    breaker.failures >= OllamaOptions.failureThreshold

\* ------------------------------------- CircuitBreaker claims, fair runs
\* C24: every execute() call settles, and no later than timeout ms after it
\* was made, also when the wrapped function never settles, given that the
\* timers fire: a call is pending at no reading of the clock after the
\* first one at which timeout ms have passed.
C24_ExecuteSettles ==
  /\ [](\A c \in Calls :
          calls[c].pc = "pending" =>
            (now - TickMs) - calls[c].started < OllamaOptions.timeout)
  /\ \A c \in Calls : (calls[c].pc = "pending") ~> (calls[c].pc = "settled")

\* a call was settled by its timer while its wrapped function still runs
C24_Witness ==
  \E c \in Calls :
    /\ calls[c].pc = "settled"
    /\ calls[c].outcome = "timeout"
    /\ calls[c].fn = "running"

\* C25: whatever state the breaker has reached, once the dependency
\* succeeds on every call and execute() keeps being called as the time
\* goes on, the breaker gets to CLOSED with failure count 0 and stays there.
C25_Recovers == <>[](breaker.state = "CLOSED" /\ breaker.failures = 0)

\* the breaker had opened, and the trial call made after resetTimeout
\* closed it again
C25_Witness ==
  /\ breaker.state = "CLOSED" /\ breaker.failures = 0
  /\ breaker.lastFailureTime > 0
  /\ \E c \in Calls :
       /\ calls[c].pc = "settled" /\ calls[c].outcome = "ok"
       /\ calls[c].sawState = "HALF_OPEN"

\* ---------------------------------------------------- ServerManager claims
\* C27: a managed process that keeps exiting is started again after an exit
\* fewer than maxRestarts (5) times.
C27_FewerThanMaxRestarts ==
  \A name \in ProcessNames : restarted[name] < maxRestarts

\* -------------------------------------------- resetCircuitBreakers claims
\* C30: from any state, resetCircuitBreakers() leaves both the RAG and the
\* LLM breaker CLOSED with failure count 0 and lastFailureTime 0, and an
\* execute() called on either of them next is admitted, that is, invokes
\* the wrapped function.
C30_ResetCloses ==
  [][ResetCircuitBreakers =>
       /\ ragCircuitBreaker'.state = "CLOSED"
       /\ ragCircuitBreaker'.failures = 0
       /\ ragCircuitBreaker'.lastFailureTime = 0
       /\ ollamaCircuitBreaker'.state = "CLOSED"
       /\ ollamaCircuitBreaker'.failures = 0
       /\ ollamaCircuitBreaker'.lastFailureTime = 0
       /\ executeAdmit(ragCircuitBreaker', RagOptions, now').admitted
       /\ executeAdmit(ollamaCircuitBreaker', OllamaOptions, now').admitted]_vars

\* a request found the RAG breaker OPEN and was refused by it, and the
\* breakers were reset before its response was delivered; the clock never
\* reads 0, so only reset() gives lastFailureTime 0 after a failure
C30_Witness ==
  /\ \E r \in Requests :
       /\ reqs[r].pc = "done"
       /\ reqs[r].ragSaw = "OPEN"
       /\ reqs[r].ragCalls = 0
  /\ ragCircuitBreaker.state = "CLOSED"
  /\ ragCircuitBreaker.failures = 0
  /\ ragCircuitBreaker.lastFailureTime = 0
  /\ ollamaCircuitBreaker.state = "CLOSED"
  /\ ollamaCircuitBreaker.lastFailureTime = 0

\* ------------------------------------------------------ suggestion claims
\* the three suggestions every answer starts with
BaseSuggestions ==
  <<"Can you explain this in more detail?",
    "What are the next steps I should take?",
    "Are there any risks I should be aware of?">>

\* C37: for every response text the suggestions are the same three base
\* suggestions in the same order, in BulletproofChatService and in
\* ChatService alike: the suggestions triggered by 'emi', 'tax' and
\* 'valuation' are appended after them and cut off by the cap of 3, so the
\* result never depends on the text.
C37_SuggestionsAreFixed ==
  suggested.asked =>
    /\ suggested.bulletproof = BaseSuggestions
    /\ suggested.chatService = BaseSuggestions

\* suggestions were made for a text that has all three keywords
C37_Witness ==
  /\ suggested.asked
  /\ \A k \in {"emi", "tax", "valuation"} :
       \E i \in 1..Len(suggested.text) :
         lowerToken(suggested.text[i]) = k
  /\ suggested.bulletproof = BaseSuggestions

====
